---- MODULE Spec2Model ----
(***************************************************************************)
(* A model of panic::RbTree (src/src/tree.hpp): the node heap, the tree    *)
(* objects (endNode_, leftmost_, size_) and the public operations insert,  *)
(* erase, clear, operator=, the constructors and the destructor; and of    *)
(* sjtu::map (src/src/map.hpp), which holds its pairs in an RbTree.        *)
(*                                                                         *)
(* Nodes live in a heap indexed by address.  Address 0 is nullptr.  Two    *)
(* tree objects exist: tree 1 lives for the whole run, tree 2 is           *)
(* copy-constructed from tree 1 and destructed during the run.             *)
(*                                                                         *)
(* Spec runs every operation on both trees over a few values; SpecDeep     *)
(* runs insert and erase on tree 1 over enough values to reach trees of    *)
(* black height 3, where the delete fix-up has to climb; SpecIter adds     *)
(* the calls that only read a tree: ++ and -- of an iterator, find.        *)
(***************************************************************************)
EXTENDS Integers, FiniteSets, Sequences, TLC

\* Spec: values inserted into tree 1 are 1..MaxKey.
MaxKey == 7
\* Spec: while tree 2 is alive only values 1..MaxKeyCopy are inserted.
MaxKeyCopy == 3
\* SpecDeep: values inserted into tree 1 are 1..MaxKeyDeep.
MaxKeyDeep == 10
\* SpecIter: values inserted into tree 1 are 1..MaxKeyIter.
MaxKeyIter == 6
\* SpecMap: keys are 1..MaxKeyMap, mapped values 0..MaxMapped.
MaxKeyMap == 4
MaxMapped == 1
\* Keys of a tree that is copied whole (SpecCopy).
MaxKeyClone == 6
\* Keys of a tree whose operations run call by call (SpecStep), and the
\* size up to which ++ and -- run on it.
MaxKeyStep == 10
MaxKeyClimb == 6
\* Most elements a vector holds, the element values 1..MaxElem, and the
\* arrays operator new[] can hand out.
MaxVecSize == 5
MaxElem == 2
VecBlocks == 3
\* Most elements of a vector that is copied.
MaxVecCopy == 2
\* Most elements of a vector whose iterators are subtracted.
MaxVecIter == 3
\* Addresses that `new Node()` of an end node can return, per tree.
EndAddrs == 2
\* Spare addresses (used only when more nodes are alive than distinct values).
Spare == 2

Null == 0
kRed == "kRed"
kBlack == "kBlack"

Trees == {1, 2}

\* value_type: map instantiates the tree with pair<const Key, T>.  A pair
\* (first, second) is held as the number first + Stride * second, the keys
\* being 1..MaxKeyDeep; a key alone is the number of the key.
Stride == MaxKeyDeep + 1
Pair(k, m) == k + Stride * m
first(p) == p % Stride
second(p) == p \div Stride
Values == {Pair(k, m) : k \in 1..MaxKeyDeep, m \in 0..MaxMapped}
\* ValueType(): the value-initialised mapped value.
DefaultMapped == 0
EndPool(t) == ((t - 1) * EndAddrs + 1)..(t * EndAddrs)
DataBase == 2 * EndAddrs
MaxAddr == DataBase + MaxKeyDeep + MaxKeyCopy + Spare
Addrs == 1..MaxAddr

\* Mutant of Cmp: the mapped value takes part in the comparison.
Cmp_WholePair(a, b) ==
  first(a) < first(b) \/ (first(a) = first(b) /\ second(a) < second(b))

\* Cmp: MapValueCompare over std::less, all four overloads: the keys of the
\* two sides are compared, the key of a pair being its first.
Cmp(a, b) == first(a) < first(b)

\* The bytes of a node that is not allocated (never read by the program).
FreeNode == [parent |-> Null, left |-> Null, right |-> Null,
             type |-> kRed, has |-> FALSE, value |-> 0]

\* Node(): value-initialised by `new Node()`; all links null, type zero
\* (kRed), empty value slot.
EndNodeInit == [parent |-> Null, left |-> Null, right |-> Null,
                type |-> kRed, has |-> FALSE, value |-> 0]

\* Node(const ValueType &): links null, slot holds the value.  The type is
\* assigned by the caller right after construction.
NewNode(v, p, ty) == [parent |-> p, left |-> Null, right |-> Null,
                      type |-> ty, has |-> TRUE, value |-> v]

\* operator new for a value node of tree t: any address that is not live.
\* Which one is not observable by the program; the model takes the address
\* reserved for (t, v) when it is free and the lowest free address otherwise.
Slot(t, v) == DataBase + (t - 1) * MaxKeyDeep + first(v)
NewAddr(live, t, v) ==
  IF Slot(t, v) \in Addrs \ live THEN Slot(t, v)
  ELSE CHOOSE a \in Addrs \ live : \A b \in Addrs \ live : a <= b

VARIABLES heap, live, tree, last, vec, run
vars == <<heap, live, tree, last, vec, run>>

----------------------------------------------------------------------------
\* Node primitives

TagPair(l, r) == [left |-> l, right |-> r]
inverse(dir) == TagPair(dir.right, dir.left)
getTagPair_(isLeftArg) ==
  IF isLeftArg THEN TagPair("left", "right") ELSE TagPair("right", "left")

\* n->*f and its assignment, f a member pointer (&Node::left / &Node::right)
Get(h, n, f) == IF f = "left" THEN h[n].left ELSE h[n].right
Set(h, n, f, x) ==
  IF f = "left" THEN [h EXCEPT ![n].left = x] ELSE [h EXCEPT ![n].right = x]

isLeft(h, n) == h[h[n].parent].left = n

neighbor(h, n) ==
  IF isLeft(h, n) THEN h[h[n].parent].right ELSE h[h[n].parent].left

replace(h, n, replacement) ==
  LET p  == h[n].parent
      h1 == IF isLeft(h, n) THEN [h EXCEPT ![p].left = replacement]
                            ELSE [h EXCEPT ![p].right = replacement]
  IN IF replacement # Null THEN [h1 EXCEPT ![replacement].parent = p] ELSE h1

RECURSIVE min(_, _)
min(h, n) == IF h[n].left = Null THEN n ELSE min(h, h[n].left)

RECURSIVE max(_, _)
max(h, n) == IF h[n].right = Null THEN n ELSE max(h, h[n].right)

RECURSIVE ClimbWhileRight(_, _)
ClimbWhileRight(h, n) ==
  IF ~isLeft(h, n) THEN ClimbWhileRight(h, h[n].parent) ELSE n

RECURSIVE ClimbWhileLeft(_, _)
ClimbWhileLeft(h, n) ==
  IF isLeft(h, n) THEN ClimbWhileLeft(h, h[n].parent) ELSE n

next(h, n) ==
  IF h[n].right # Null THEN min(h, h[n].right)
  ELSE h[ClimbWhileRight(h, n)].parent

\* Mutant of prev: the parent is taken without climbing.
prev_NoClimb(h, n) ==
  IF h[n].left # Null THEN max(h, h[n].left)
  ELSE h[n].parent

prev(h, n) ==
  IF h[n].left # Null THEN max(h, h[n].left)
  ELSE h[ClimbWhileLeft(h, n)].parent

\* Mutant of Node_find: descends to the wrong side.
RECURSIVE Node_find_Flipped(_, _, _)
Node_find_Flipped(h, n, key) ==
  IF ~Cmp(key, h[n].value) /\ ~Cmp(h[n].value, key)
    THEN [has |-> TRUE, node |-> n]
  ELSE IF Cmp(key, h[n].value)
    THEN IF h[n].right = Null THEN [has |-> FALSE, node |-> Null]
         ELSE Node_find_Flipped(h, h[n].right, key)
  ELSE IF h[n].left = Null THEN [has |-> FALSE, node |-> Null]
       ELSE Node_find_Flipped(h, h[n].left, key)

\* Node::find: [has, node]
RECURSIVE Node_find(_, _, _)
Node_find(h, n, key) ==
  IF ~Cmp(key, h[n].value) /\ ~Cmp(h[n].value, key)
    THEN [has |-> TRUE, node |-> n]
  ELSE IF Cmp(key, h[n].value)
    THEN IF h[n].left = Null THEN [has |-> FALSE, node |-> Null]
         ELSE Node_find(h, h[n].left, key)
  ELSE IF h[n].right = Null THEN [has |-> FALSE, node |-> Null]
       ELSE Node_find(h, h[n].right, key)

\* Mutant of Node_emplace: descends to the wrong side.
RECURSIVE Node_emplace_Flipped(_, _, _, _)
Node_emplace_Flipped(h, n, v, a) ==
  IF ~Cmp(v, h[n].value) /\ ~Cmp(h[n].value, v)
    THEN [h |-> h, has |-> TRUE, node |-> n]
  ELSE
    LET f  == IF Cmp(v, h[n].value) THEN "right" ELSE "left"
        nx == Get(h, n, f)
    IN IF nx # Null THEN Node_emplace_Flipped(h, nx, v, a)
       ELSE [h    |-> Set([h EXCEPT ![a] = NewNode(v, n, kRed)], n, f, a),
             has  |-> FALSE,
             node |-> a]

\* Node::emplace with `a` the address operator new returns: [h, has, node]
RECURSIVE Node_emplace(_, _, _, _)
Node_emplace(h, n, v, a) ==
  IF ~Cmp(v, h[n].value) /\ ~Cmp(h[n].value, v)
    THEN [h |-> h, has |-> TRUE, node |-> n]
  ELSE
    LET f  == IF Cmp(v, h[n].value) THEN "left" ELSE "right"
        nx == Get(h, n, f)
    IN IF nx # Null THEN Node_emplace(h, nx, v, a)
       ELSE [h    |-> Set([h EXCEPT ![a] = NewNode(v, n, kRed)], n, f, a),
             has  |-> FALSE,
             node |-> a]

----------------------------------------------------------------------------
\* RbTree private operations.  T is the tree object [endNode_, leftmost_, size_].

root_(h, T) == h[T.endNode_].left

setRoot_(h, T, root) ==
  [h EXCEPT ![T.endNode_].left = root,
            ![root].parent = T.endNode_,
            ![root].type = kBlack]

\* Mutant of rotate_: the subtree that changes sides keeps its old parent.
rotate_NoInnerParent(h, x, direction) ==
  LET left  == direction.left
      right == direction.right
      y == Get(h, x, right)
      L460(g) == Set(g, x, right, Get(g, y, left))
      L462(g) == replace(g, x, y)
      L463(g) == Set(g, y, left, x)
      L464(g) == [g EXCEPT ![x].parent = y]
  IN L464(L463(L462(L460(h))))

\* Statements are written as operators on the heap g, composed in program
\* order; locals read before the first statement are read from h.
rotate_(h, x, direction) ==
  LET left  == direction.left
      right == direction.right
      y == Get(h, x, right)
      L460(g) == Set(g, x, right, Get(g, y, left))
      L461(g) == IF Get(g, y, left) # Null
                   THEN [g EXCEPT ![Get(g, y, left)].parent = x] ELSE g
      L462(g) == replace(g, x, y)
      L463(g) == Set(g, y, left, x)
      L464(g) == [g EXCEPT ![x].parent = y]
  IN L464(L463(L462(L461(L460(h)))))

RECURSIVE fixupInsert_(_, _, _)
fixupInsert_(h, T, node) ==
  IF h[h[node].parent].type # kRed THEN h
  ELSE IF node = root_(h, T) THEN h
  ELSE
    LET parentIsLeft == isLeft(h, h[node].parent)
        dir          == getTagPair_(parentIsLeft)
        grandParent  == h[h[node].parent].parent
        uncle        == Get(h, grandParent, dir.right)
        \* uncle is red
        L505(g) == [g EXCEPT ![g[node].parent].type = kBlack]
        L506(g) == [g EXCEPT ![grandParent].type =
                      IF grandParent = root_(g, T) THEN kBlack ELSE kRed]
        L507(g) == [g EXCEPT ![uncle].type = kBlack]
        L509(g) == fixupInsert_(g, T, g[g[node].parent].parent)
        \* uncle is black or absent; nd is the local `node`
        zig     == parentIsLeft # isLeft(h, node)
        L513(g) == IF zig THEN rotate_(g, h[node].parent, dir) ELSE g
        L515(g, nd) == [g EXCEPT ![g[nd].parent].type = kBlack]
        L516(g) == [g EXCEPT ![grandParent].type = kRed]
        L517(g) == rotate_(g, grandParent, inverse(dir))
    IN IF uncle # Null /\ h[uncle].type = kRed
         THEN L509(L507(L506(L505(h))))
       ELSE L517(L516(L515(L513(h), IF zig THEN h[node].parent ELSE node)))

\* Mutant of emplace_: fixupInsert_ is not called.
emplace_NoFixup(h, T, value, a) ==
  IF root_(h, T) = Null
    THEN [h    |-> setRoot_([h EXCEPT ![a] = NewNode(value, Null, kRed)], T, a),
          T    |-> [T EXCEPT !.leftmost_ = a],
          has  |-> FALSE,
          node |-> a]
  ELSE
    LET L486(g, newNode) ==
          [g EXCEPT ![newNode].type =
             IF newNode = root_(g, T) THEN kBlack ELSE kRed]
        L490(g, newNode) ==
          IF g[T.leftmost_].left # Null THEN [T EXCEPT !.leftmost_ = newNode]
          ELSE T
        L492(g, T1) == [g EXCEPT ![root_(g, T1)].type = kBlack]
        L491(g, T1, newNode) ==
          [h    |-> L492(g, T1),
           T    |-> T1,
           has  |-> FALSE,
           node |-> newNode]
        L487(g, newNode) == L491(g, L490(g, newNode), newNode)
        L484(dup) ==
          IF dup.has THEN [h |-> h, T |-> T, has |-> TRUE, node |-> dup.node]
          ELSE L487(L486(dup.h, dup.node), dup.node)
    IN L484(Node_emplace(h, root_(h, T), value, a))

\* Mutant of emplace_: leftmost_ is not updated.
emplace_NoLeftmost(h, T, value, a) ==
  IF root_(h, T) = Null
    THEN [h    |-> setRoot_([h EXCEPT ![a] = NewNode(value, Null, kRed)], T, a),
          T    |-> [T EXCEPT !.leftmost_ = a],
          has  |-> FALSE,
          node |-> a]
  ELSE
    LET L486(g, newNode) ==
          [g EXCEPT ![newNode].type =
             IF newNode = root_(g, T) THEN kBlack ELSE kRed]
        L490(g, newNode) ==
          T
        L492(g, T1) == [g EXCEPT ![root_(g, T1)].type = kBlack]
        L491(g, T1, newNode) ==
          [h    |-> L492(fixupInsert_(g, T1, newNode), T1),
           T    |-> T1,
           has  |-> FALSE,
           node |-> newNode]
        L487(g, newNode) == L491(g, L490(g, newNode), newNode)
        L484(dup) ==
          IF dup.has THEN [h |-> h, T |-> T, has |-> TRUE, node |-> dup.node]
          ELSE L487(L486(dup.h, dup.node), dup.node)
    IN L484(Node_emplace(h, root_(h, T), value, a))

\* Mutant of emplace_: the new node is typed black wherever it is.
emplace_BlackNode(h, T, value, a) ==
  IF root_(h, T) = Null
    THEN [h    |-> setRoot_([h EXCEPT ![a] = NewNode(value, Null, kRed)], T, a),
          T    |-> [T EXCEPT !.leftmost_ = a],
          has  |-> FALSE,
          node |-> a]
  ELSE
    LET L486(g, newNode) ==
          [g EXCEPT ![newNode].type = kBlack]
        L490(g, newNode) ==
          IF g[T.leftmost_].left # Null THEN [T EXCEPT !.leftmost_ = newNode]
          ELSE T
        L492(g, T1) == [g EXCEPT ![root_(g, T1)].type = kBlack]
        L491(g, T1, newNode) ==
          [h    |-> L492(fixupInsert_(g, T1, newNode), T1),
           T    |-> T1,
           has  |-> FALSE,
           node |-> newNode]
        L487(g, newNode) == L491(g, L490(g, newNode), newNode)
        L484(dup) ==
          IF dup.has THEN [h |-> h, T |-> T, has |-> TRUE, node |-> dup.node]
          ELSE L487(L486(dup.h, dup.node), dup.node)
    IN L484(Node_emplace(h, root_(h, T), value, a))

\* emplace_ with `a` the address operator new returns: [h, T, has, node]
emplace_(h, T, value, a) ==
  IF root_(h, T) = Null
    THEN [h    |-> setRoot_([h EXCEPT ![a] = NewNode(value, Null, kRed)], T, a),
          T    |-> [T EXCEPT !.leftmost_ = a],
          has  |-> FALSE,
          node |-> a]
  ELSE
    LET L486(g, newNode) ==
          [g EXCEPT ![newNode].type =
             IF newNode = root_(g, T) THEN kBlack ELSE kRed]
        L490(g, newNode) ==
          IF g[T.leftmost_].left # Null THEN [T EXCEPT !.leftmost_ = newNode]
          ELSE T
        L492(g, T1) == [g EXCEPT ![root_(g, T1)].type = kBlack]
        L491(g, T1, newNode) ==
          [h    |-> L492(fixupInsert_(g, T1, newNode), T1),
           T    |-> T1,
           has  |-> FALSE,
           node |-> newNode]
        L487(g, newNode) == L491(g, L490(g, newNode), newNode)
        L484(dup) ==
          IF dup.has THEN [h |-> h, T |-> T, has |-> TRUE, node |-> dup.node]
          ELSE L487(L486(dup.h, dup.node), dup.node)
    IN L484(Node_emplace(h, root_(h, T), value, a))

nullOrBlack(h, n) == n = Null \/ h[n].type = kBlack

\* A member access through a null pointer.  The behaviour is undefined; the
\* model marks the slot of the null address and runs the fix-up no further.
NullDeref(h) == [h EXCEPT ![Null].has = TRUE]

RECURSIVE fixupDelete_(_, _, _)
fixupDelete_(h, T, neighborArg) ==
  LET dir   == getTagPair_(~isLeft(h, neighborArg))
      left  == dir.left
      right == dir.right
      \* neighbor is red
      L560(g) == [g EXCEPT ![neighborArg].type = kBlack]
      L561(g) == [g EXCEPT ![g[neighborArg].parent].type = kRed]
      L562(g) == rotate_(g, g[neighborArg].parent, dir)
      L563(g) == Get(g, Get(g, neighborArg, left), right)
      \* both children of neighbor nb are black or absent
      L566(g, nb) == [g EXCEPT ![nb].type = kRed]
      L568(g, parent) ==
        IF parent = root_(g, T) \/ g[parent].type = kRed
          THEN [g EXCEPT ![parent].type = kBlack]
        ELSE fixupDelete_(g, T, neighbor(g, parent))
      \* the far child of nb is black or absent
      L578(g, nb) == [g EXCEPT ![Get(g, nb, left)].type = kBlack]
      L579(g, nb) == [g EXCEPT ![nb].type = kRed]
      L580(g, nb) == rotate_(g, nb, inverse(dir))
      \* the far child of nb is red
      L583(g, nb) == [g EXCEPT ![nb].type = g[g[nb].parent].type]
      L584(g, nb) == [g EXCEPT ![g[nb].parent].type = kBlack]
      L585(g, nb) == [g EXCEPT ![Get(g, nb, right)].type = kBlack]
      L586(g, nb) == rotate_(g, g[nb].parent, dir)
      Terminal(g, nb) ==
        IF nb = Null \/ g[nb].parent = Null \/ Get(g, nb, right) = Null
          THEN NullDeref(g)
        ELSE L586(L585(L584(L583(g, nb), nb), nb), nb)
      L565(g, nb) ==
        IF nullOrBlack(g, g[nb].left) /\ nullOrBlack(g, g[nb].right)
          THEN L568(L566(g, nb), g[nb].parent)
        ELSE IF nullOrBlack(g, Get(g, nb, right))
          THEN LET AfterRotate(g2) == Terminal(g2, g2[nb].parent)
               IN IF Get(g, nb, left) = Null THEN NullDeref(g)
                  ELSE AfterRotate(L580(L579(L578(g, nb), nb), nb))
        ELSE Terminal(g, nb)
      AfterRed(g) == IF L563(g) = Null THEN NullDeref(g) ELSE L565(g, L563(g))
  IN IF neighborArg = Null THEN NullDeref(h)
     ELSE IF h[neighborArg].type = kRed
       THEN AfterRed(L562(L561(L560(h))))
     ELSE L565(h, neighborArg)

\* Mutant of delete_: the value of y is copied into node instead of moving y
\* into the place of node.
delete_CopyValue(h, T, node) ==
  LET T1 == IF node = T.leftmost_ THEN [T EXCEPT !.leftmost_ = next(h, node)]
            ELSE T
      notFull == h[node].left = Null \/ h[node].right = Null
      y == IF notFull THEN node ELSE min(h, h[node].right)
      childY == IF h[y].left # Null THEN h[y].left ELSE h[y].right
      neighborY == IF y = root_(h, T1) THEN Null ELSE neighbor(h, y)
      L536(g) == replace(g, y, childY)
      shouldFixup(g) == g[y].type = kBlack /\ root_(g, T1) # Null
      L538(g) == IF node # y THEN [g EXCEPT ![node].value = g[y].value]
                 ELSE g
      L546(g, fix) ==
        IF fix
          THEN IF childY # Null THEN [g EXCEPT ![childY].type = kBlack]
               ELSE fixupDelete_(g, T1, neighborY)
        ELSE g
      AfterSplice(g) == L546(L538(g), shouldFixup(g))
  IN [h |-> AfterSplice(L536(h)), T |-> T1]

\* Mutant of delete_: shouldFixup is computed after y took the colour of node.
delete_LateCheck(h, T, node) ==
  LET T1 == IF node = T.leftmost_ THEN [T EXCEPT !.leftmost_ = next(h, node)]
            ELSE T
      notFull == h[node].left = Null \/ h[node].right = Null
      y == IF notFull THEN node ELSE min(h, h[node].right)
      childY == IF h[y].left # Null THEN h[y].left ELSE h[y].right
      neighborY == IF y = root_(h, T1) THEN Null ELSE neighbor(h, y)
      L536(g) == replace(g, y, childY)
      shouldFixup(g) == g[y].type = kBlack /\ root_(g, T1) # Null
      \* node != y: y takes the place of node
      L539(g) == replace(g, node, y)
      L540(g) == [g EXCEPT ![y].left = g[node].left]
      L541(g) == [g EXCEPT ![g[y].left].parent = y]
      L542(g) == [g EXCEPT ![y].right = g[node].right]
      L543(g) == IF g[y].right # Null THEN [g EXCEPT ![g[y].right].parent = y]
                 ELSE g
      L544(g) == [g EXCEPT ![y].type = g[node].type]
      L538(g) == IF node # y THEN L544(L543(L542(L541(L540(L539(g))))))
                 ELSE g
      L546(g, fix) ==
        IF fix
          THEN IF childY # Null THEN [g EXCEPT ![childY].type = kBlack]
               ELSE fixupDelete_(g, T1, neighborY)
        ELSE g
      AfterSplice(g) == L546(L538(g), shouldFixup(L538(g)))
  IN [h |-> AfterSplice(L536(h)), T |-> T1]

\* Mutant of delete_: the child of y is not recoloured.
delete_NoRecolor(h, T, node) ==
  LET T1 == IF node = T.leftmost_ THEN [T EXCEPT !.leftmost_ = next(h, node)]
            ELSE T
      notFull == h[node].left = Null \/ h[node].right = Null
      y == IF notFull THEN node ELSE min(h, h[node].right)
      childY == IF h[y].left # Null THEN h[y].left ELSE h[y].right
      neighborY == IF y = root_(h, T1) THEN Null ELSE neighbor(h, y)
      L536(g) == replace(g, y, childY)
      shouldFixup(g) == g[y].type = kBlack /\ root_(g, T1) # Null
      \* node != y: y takes the place of node
      L539(g) == replace(g, node, y)
      L540(g) == [g EXCEPT ![y].left = g[node].left]
      L541(g) == [g EXCEPT ![g[y].left].parent = y]
      L542(g) == [g EXCEPT ![y].right = g[node].right]
      L543(g) == IF g[y].right # Null THEN [g EXCEPT ![g[y].right].parent = y]
                 ELSE g
      L544(g) == [g EXCEPT ![y].type = g[node].type]
      L538(g) == IF node # y THEN L544(L543(L542(L541(L540(L539(g))))))
                 ELSE g
      L546(g, fix) ==
        IF fix
          THEN IF childY # Null THEN g
               ELSE fixupDelete_(g, T1, neighborY)
        ELSE g
      AfterSplice(g) == L546(L538(g), shouldFixup(g))
  IN [h |-> AfterSplice(L536(h)), T |-> T1]

\* Mutant of delete_: the fix-up runs also when y had a child.
delete_NoChildCheck(h, T, node) ==
  LET T1 == IF node = T.leftmost_ THEN [T EXCEPT !.leftmost_ = next(h, node)]
            ELSE T
      notFull == h[node].left = Null \/ h[node].right = Null
      y == IF notFull THEN node ELSE min(h, h[node].right)
      childY == IF h[y].left # Null THEN h[y].left ELSE h[y].right
      neighborY == IF y = root_(h, T1) THEN Null ELSE neighbor(h, y)
      L536(g) == replace(g, y, childY)
      shouldFixup(g) == g[y].type = kBlack /\ root_(g, T1) # Null
      \* node != y: y takes the place of node
      L539(g) == replace(g, node, y)
      L540(g) == [g EXCEPT ![y].left = g[node].left]
      L541(g) == [g EXCEPT ![g[y].left].parent = y]
      L542(g) == [g EXCEPT ![y].right = g[node].right]
      L543(g) == IF g[y].right # Null THEN [g EXCEPT ![g[y].right].parent = y]
                 ELSE g
      L544(g) == [g EXCEPT ![y].type = g[node].type]
      L538(g) == IF node # y THEN L544(L543(L542(L541(L540(L539(g))))))
                 ELSE g
      L546(g, fix) ==
        IF fix
          THEN fixupDelete_(g, T1, neighborY)
        ELSE g
      AfterSplice(g) == L546(L538(g), shouldFixup(g))
  IN [h |-> AfterSplice(L536(h)), T |-> T1]

\* delete_: [h, T]
delete_(h, T, node) ==
  LET T1 == IF node = T.leftmost_ THEN [T EXCEPT !.leftmost_ = next(h, node)]
            ELSE T
      notFull == h[node].left = Null \/ h[node].right = Null
      y == IF notFull THEN node ELSE min(h, h[node].right)
      childY == IF h[y].left # Null THEN h[y].left ELSE h[y].right
      neighborY == IF y = root_(h, T1) THEN Null ELSE neighbor(h, y)
      L536(g) == replace(g, y, childY)
      shouldFixup(g) == g[y].type = kBlack /\ root_(g, T1) # Null
      \* node != y: y takes the place of node
      L539(g) == replace(g, node, y)
      L540(g) == [g EXCEPT ![y].left = g[node].left]
      L541(g) == [g EXCEPT ![g[y].left].parent = y]
      L542(g) == [g EXCEPT ![y].right = g[node].right]
      L543(g) == IF g[y].right # Null THEN [g EXCEPT ![g[y].right].parent = y]
                 ELSE g
      L544(g) == [g EXCEPT ![y].type = g[node].type]
      L538(g) == IF node # y THEN L544(L543(L542(L541(L540(L539(g))))))
                 ELSE g
      L546(g, fix) ==
        IF fix
          THEN IF childY # Null THEN [g EXCEPT ![childY].type = kBlack]
               ELSE fixupDelete_(g, T1, neighborY)
        ELSE g
      AfterSplice(g) == L546(L538(g), shouldFixup(g))
  IN [h |-> AfterSplice(L536(h)), T |-> T1]

----------------------------------------------------------------------------
\* Lifetime: Node::destroy, Node::clone, init_, destroy_

\* Mutant of destroy: the right subtree is not destroyed.
RECURSIVE destroy_NoRight(_, _, _)
destroy_NoRight(h, lv, n) ==
  LET Free(d, c, f) == [h    |-> Set([d.h EXCEPT ![c] = FreeNode], n, f, Null),
                        live |-> d.live \ {c}]
      L300(s) == IF s.h[n].left # Null
                   THEN Free(destroy_NoRight(s.h, s.live, s.h[n].left),
                             s.h[n].left, "left")
                 ELSE s
  IN L300([h |-> h, live |-> lv])

\* Node::destroy: [h, live]
RECURSIVE destroy(_, _, _)
destroy(h, lv, n) ==
  LET Free(d, c, f) == [h    |-> Set([d.h EXCEPT ![c] = FreeNode], n, f, Null),
                        live |-> d.live \ {c}]
      L300(s) == IF s.h[n].left # Null
                   THEN Free(destroy(s.h, s.live, s.h[n].left), s.h[n].left,
                             "left")
                 ELSE s
      L305(s) == IF s.h[n].right # Null
                   THEN Free(destroy(s.h, s.live, s.h[n].right), s.h[n].right,
                             "right")
                 ELSE s
  IN L305(L300([h |-> h, live |-> lv]))

\* Mutant of clone: the children are not cloned; the copy keeps the pointers
\* that Node(*this) copied.
clone_Shallow(h, lv, t, n, parent, a) ==
  [h    |-> [h EXCEPT ![a] = [h[n] EXCEPT !.parent = parent]],
   live |-> lv \cup {a},
   node |-> a]

\* Mutant of clone: the parent of the copy is not assigned; it stays the
\* pointer that Node(*this) copied.
RECURSIVE clone_KeepParent(_, _, _, _, _, _)
clone_KeepParent(h, lv, t, n, parent, a) ==
  LET Link(c, f) == [h |-> Set(c.h, a, f, c.node), live |-> c.live]
      L378(s) == [h    |-> [s.h EXCEPT ![a] = h[n]],
                  live |-> s.live \cup {a}]
      L380(s) == IF h[n].left # Null
                   THEN Link(clone_KeepParent(s.h, s.live, t, h[n].left, a,
                                   NewAddr(s.live, t, h[h[n].left].value)),
                             "left")
                 ELSE s
      L381(s) == IF h[n].right # Null
                   THEN Link(clone_KeepParent(s.h, s.live, t, h[n].right, a,
                                   NewAddr(s.live, t, h[h[n].right].value)),
                             "right")
                 ELSE s
      L382(s) == [h |-> s.h, live |-> s.live, node |-> a]
  IN L382(L381(L380(L378([h |-> h, live |-> lv]))))

\* Node::clone into tree t, the copy of n placed at address a: [h, live, node]
RECURSIVE clone(_, _, _, _, _, _)
clone(h, lv, t, n, parent, a) ==
  LET Link(c, f) == [h |-> Set(c.h, a, f, c.node), live |-> c.live]
      L378(s) == [h    |-> [s.h EXCEPT ![a] = [h[n] EXCEPT !.parent = parent]],
                  live |-> s.live \cup {a}]
      L380(s) == IF h[n].left # Null
                   THEN Link(clone(s.h, s.live, t, h[n].left, a,
                                   NewAddr(s.live, t, h[h[n].left].value)),
                             "left")
                 ELSE s
      L381(s) == IF h[n].right # Null
                   THEN Link(clone(s.h, s.live, t, h[n].right, a,
                                   NewAddr(s.live, t, h[h[n].right].value)),
                             "right")
                 ELSE s
      L382(s) == [h |-> s.h, live |-> s.live, node |-> a]
  IN L382(L381(L380(L378([h |-> h, live |-> lv]))))

NoTree == [endNode_ |-> Null, leftmost_ |-> Null, size_ |-> 0]

\* init_ with `a` the address of the new end node: [h, live, T]
init_(h, lv, a) ==
  [h    |-> [h EXCEPT ![a] = EndNodeInit],
   live |-> lv \cup {a},
   T    |-> [endNode_ |-> a, leftmost_ |-> a, size_ |-> 0]]

\* destroy_: [h, live, T]
destroy_(h, lv, T) ==
  IF T.endNode_ # Null
    THEN LET L424(d) == [h    |-> [d.h EXCEPT ![T.endNode_] = FreeNode],
                         live |-> d.live \ {T.endNode_},
                         T    |-> NoTree]
         IN L424(destroy(h, lv, T.endNode_))
  ELSE [h |-> h, live |-> lv, T |-> [T EXCEPT !.size_ = 0]]

\* The addresses operator new may return for an end node of tree t.
FreeEndAddrs(lv, t) == EndPool(t) \ lv

----------------------------------------------------------------------------
\* RbTree public operations

begin(T) == T.leftmost_
end(T) == T.endNode_
empty(T) == T.size_ = 0
size(T) == T.size_

\* find: the node of the returned iterator
find(h, T, key) ==
  IF empty(T) THEN T.endNode_
  ELSE LET node == Node_find(h, h[T.endNode_].left, key)
       IN IF ~node.has THEN T.endNode_ ELSE node.node

\* Mutant of iterator_predec: the check is the one of operator++.
iterator_predec_EndCheck(h, trees, it) ==
  IF it.node = trees[it.home].endNode_
    THEN [it |-> it, ret |-> Null, threw |-> TRUE]
  ELSE [it    |-> [it EXCEPT !.node = prev(h, it.node)],
        ret   |-> prev(h, it.node),
        threw |-> FALSE]

\* iterator::operator++ and operator-- on the iterator `it` = (node_, home_),
\* `trees` the tree objects home_ points into: [it, ret, threw], it the
\* iterator after the call and ret the node_ of the iterator returned.
\* const_iterator (lines 183-204) has the same four bodies.
iterator_postinc(h, trees, it) ==
  IF it.node = trees[it.home].endNode_
    THEN [it |-> it, ret |-> Null, threw |-> TRUE]
  ELSE [it    |-> [it EXCEPT !.node = next(h, it.node)],
        ret   |-> it.node,
        threw |-> FALSE]

iterator_preinc(h, trees, it) ==
  IF it.node = trees[it.home].endNode_
    THEN [it |-> it, ret |-> Null, threw |-> TRUE]
  ELSE [it    |-> [it EXCEPT !.node = next(h, it.node)],
        ret   |-> next(h, it.node),
        threw |-> FALSE]

iterator_postdec(h, trees, it) ==
  IF it.node = trees[it.home].leftmost_
    THEN [it |-> it, ret |-> Null, threw |-> TRUE]
  ELSE [it    |-> [it EXCEPT !.node = prev(h, it.node)],
        ret   |-> it.node,
        threw |-> FALSE]

iterator_predec(h, trees, it) ==
  IF it.node = trees[it.home].leftmost_
    THEN [it |-> it, ret |-> Null, threw |-> TRUE]
  ELSE [it    |-> [it EXCEPT !.node = prev(h, it.node)],
        ret   |-> prev(h, it.node),
        threw |-> FALSE]

\* Mutant of insert: size_ is not incremented.
insert_NoCount(h, lv, T, value, a) ==
  LET L262(res) ==
        [h        |-> res.h,
         live     |-> IF res.has THEN lv ELSE lv \cup {a},
         T        |-> res.T,
         node     |-> res.node,
         inserted |-> ~res.has]
  IN L262(emplace_(h, T, value, a))

\* Mutant of insert: size_ is incremented for a duplicate too.
insert_AlwaysCount(h, lv, T, value, a) ==
  LET L262(res) ==
        [h        |-> res.h,
         live     |-> IF res.has THEN lv ELSE lv \cup {a},
         T        |-> [res.T EXCEPT !.size_ = @ + 1],
         node     |-> res.node,
         inserted |-> ~res.has]
  IN L262(emplace_(h, T, value, a))

\* insert with `a` the address operator new returns:
\* [h, live, T, node, inserted].  The node emplace_ allocated (none for a
\* duplicate) is added to the live set here.
insert(h, lv, T, value, a) ==
  LET L262(res) ==
        [h        |-> res.h,
         live     |-> IF res.has THEN lv ELSE lv \cup {a},
         T        |-> IF ~res.has THEN [res.T EXCEPT !.size_ = @ + 1] ELSE res.T,
         node     |-> res.node,
         inserted |-> ~res.has]
  IN L262(emplace_(h, T, value, a))

\* Mutant of erase: size_ is not decremented.
erase_NoCount(h, lv, T, this, pos) ==
  IF pos.node = T.endNode_ \/ pos.home # this
    THEN [h |-> h, live |-> lv, T |-> T, threw |-> TRUE]
  ELSE LET L268(d) ==
             [h     |-> [d.h EXCEPT ![pos.node] = FreeNode],
              live  |-> lv \ {pos.node},
              T     |-> d.T,
              threw |-> FALSE]
       IN L268(delete_(h, T, pos.node))

\* Mutant of erase: the two checks are joined by && instead of ||.
erase_AndGuard(h, lv, T, this, pos) ==
  IF pos.node = T.endNode_ /\ pos.home # this
    THEN [h |-> h, live |-> lv, T |-> T, threw |-> TRUE]
  ELSE LET L268(d) ==
             [h     |-> [d.h EXCEPT ![pos.node] = FreeNode],
              live  |-> lv \ {pos.node},
              T     |-> [d.T EXCEPT !.size_ = @ - 1],
              threw |-> FALSE]
       IN L268(delete_(h, T, pos.node))

\* Mutant of erase: `delete pos.node_` is left out.
erase_NoDelete(h, lv, T, this, pos) ==
  IF pos.node = T.endNode_ \/ pos.home # this
    THEN [h |-> h, live |-> lv, T |-> T, threw |-> TRUE]
  ELSE LET L268(d) ==
             [h     |-> d.h,
              live  |-> lv,
              T     |-> [d.T EXCEPT !.size_ = @ - 1],
              threw |-> FALSE]
       IN L268(delete_(h, T, pos.node))

\* erase(pos), pos = (node_, home_), on the tree object `this`:
\* [h, live, T, threw]
erase(h, lv, T, this, pos) ==
  IF pos.node = T.endNode_ \/ pos.home # this
    THEN [h |-> h, live |-> lv, T |-> T, threw |-> TRUE]
  ELSE LET L268(d) ==
             [h     |-> [d.h EXCEPT ![pos.node] = FreeNode],
              live  |-> lv \ {pos.node},
              T     |-> [d.T EXCEPT !.size_ = @ - 1],
              threw |-> FALSE]
       IN L268(delete_(h, T, pos.node))

\* clear with `a` the address of the new end node: [h, live, T]
clear(h, lv, T, a) ==
  LET L258(d) == init_(d.h, d.live, a)
  IN L258(destroy_(h, lv, T))

\* Mutant of Assign: size_ is left as destroy_ set it.
Assign_NoSize(h, lv, T, this, other, otherId, a) ==
  IF this = otherId THEN [h |-> h, live |-> lv, T |-> T]
  ELSE LET L235(c) ==
             [h    |-> c.h,
              live |-> c.live,
              T    |-> [endNode_  |-> c.node,
                        leftmost_ |-> min(c.h, c.node),
                        size_     |-> 0]]
           L234(d) == L235(clone(d.h, d.live, this, other.endNode_, Null, a))
       IN L234(destroy_(h, lv, T))

\* operator= (this = other) with `a` the address of the cloned end node:
\* [h, live, T]
Assign(h, lv, T, this, other, otherId, a) ==
  IF this = otherId THEN [h |-> h, live |-> lv, T |-> T]
  ELSE LET L235(c) ==
             [h    |-> c.h,
              live |-> c.live,
              T    |-> [endNode_  |-> c.node,
                        leftmost_ |-> min(c.h, c.node),
                        size_     |-> other.size_]]
           L234(d) == L235(clone(d.h, d.live, this, other.endNode_, Null, a))
       IN L234(destroy_(h, lv, T))

----------------------------------------------------------------------------
\* sjtu::map public operations; T is the member tree_.

\* Mutant of map_at: the key of the element is returned.
map_at_ReturnsKey(h, T, key) ==
  LET L70(it) ==
        IF it = end(T) THEN [ret |-> Null, node |-> Null, threw |-> TRUE]
        ELSE [ret |-> first(h[it].value), node |-> it, threw |-> FALSE]
  IN L70(find(h, T, key))

\* map::at, the const and the non-const overload alike: [ret, node, threw],
\* ret the mapped value referred to and node the element it belongs to.
map_at(h, T, key) ==
  LET L70(it) ==
        IF it = end(T) THEN [ret |-> Null, node |-> Null, threw |-> TRUE]
        ELSE [ret |-> second(h[it].value), node |-> it, threw |-> FALSE]
  IN L70(find(h, T, key))

\* map::operator[] const
map_index_const(h, T, key) == map_at(h, T, key)

\* Mutant of map_index: the mapped value is reset to the default.
map_index_Reset(h, lv, T, key, a) ==
  LET L86(p) ==
        [h        |-> [p.h EXCEPT ![p.node].value =
                         Pair(first(@), DefaultMapped)],
         live     |-> p.live,
         T        |-> p.T,
         node     |-> p.node,
         inserted |-> p.inserted,
         ret      |-> DefaultMapped]
  IN L86(insert(h, lv, T, Pair(key, DefaultMapped), a))

\* map::operator[] with `a` the address operator new returns:
\* [h, live, T, node, inserted, ret], ret the mapped value referred to and
\* node the element it belongs to.
map_index(h, lv, T, key, a) ==
  LET L86(p) ==
        [h        |-> p.h,
         live     |-> p.live,
         T        |-> p.T,
         node     |-> p.node,
         inserted |-> p.inserted,
         ret      |-> second(p.h[p.node].value)]
  IN L86(insert(h, lv, T, Pair(key, DefaultMapped), a))

\* map::insert
map_insert(h, lv, T, value, a) == insert(h, lv, T, value, a)

\* map::erase
map_erase(h, lv, T, this, pos) == erase(h, lv, T, this, pos)

----------------------------------------------------------------------------
\* sjtu::vector<T>.  T is a trivially copyable type with the values
\* 1..MaxElem, so that an assignment to storage that holds no element is a
\* plain store.

Vectors == {1, 2}
Elems == 1..MaxElem

\* What storage holds where no element lives (fresh from new char[], or
\* after ~T()).
Raw == 0

\* static constexpr size_t kSzDefault_
kSzDefault_ == 4

\* The arrays operator new[] can return lie BlockSpan elements apart, the
\* k-th at address k * BlockSpan (in units of sizeof(T)).  No array the
\* bounded runs allocate is longer than BlockSpan.
BlockSpan == 2 * MaxVecSize
VecBases == {k * BlockSpan : k \in 1..VecBlocks}
Cells == 0..(BlockSpan - 1)

\* An address range that is not allocated.
FreeBlock == [used |-> FALSE, cap |-> 0, cell |-> [i \in Cells |-> Raw]]

\* vector() = default: the member initialisers.
VectorInit == [storage_ |-> Null, capacity_ |-> 0, size_ |-> 0]

\* The state of the vectors: obj are the objects, mem the arrays, ub tells
\* that an access outside an array has happened.
VecInit == [obj |-> [v \in Vectors |-> VectorInit],
            mem |-> [b \in VecBases |-> FreeBlock],
            ub  |-> FALSE]

\* new char[n * kSzT_]: an unused range; its bytes hold no element.  Which
\* range is not observable by the program; the model takes the lowest.
NewBlock(w) ==
  CHOOSE b \in VecBases :
    /\ ~w.mem[b].used
    /\ \A c \in VecBases : ~w.mem[c].used => b <= c

\* at[i] = x (or new(at + i) T(x)).  A store past the end of the array has
\* undefined behaviour: `lands` tells whether the value is found there
\* afterwards.
Write(w, at, i, x, lands) ==
  IF i < w.mem[at].cap THEN [w EXCEPT !.mem[at].cell[i] = x]
  ELSE [w EXCEPT !.mem[at].cell[i] = IF lands THEN x ELSE Raw, !.ub = TRUE]

\* (at + i)->~T()
Destroy(w, at, i) ==
  IF i < w.mem[at].cap THEN [w EXCEPT !.mem[at].cell[i] = Raw]
  ELSE [w EXCEPT !.mem[at].cell[i] = Raw, !.ub = TRUE]

\* delete[] reinterpret_cast<char *>(p); deleting nullptr does nothing.
DeleteBlock(w, p) == IF p = Null THEN w ELSE [w EXCEPT !.mem[p] = FreeBlock]

\* copyContents_(to, from, n), the loop from index i on.
RECURSIVE copyContents_(_, _, _, _, _, _)
copyContents_(w, to, from, i, n, lands) ==
  IF i < n
  THEN copyContents_(Write(w, to, i, w.mem[from].cell[i], lands), to, from,
                     i + 1, n, lands)
  ELSE w

\* moveContents_(to, from, n), the loop from index i on.
RECURSIVE moveContents_(_, _, _, _, _, _)
moveContents_(w, to, from, i, n, lands) ==
  IF i < n
  THEN moveContents_(Destroy(Write(w, to, i, w.mem[from].cell[i], lands),
                             from, i),
                     to, from, i + 1, n, lands)
  ELSE w

\* destroyContents_(array, n), the loop from index i on.
RECURSIVE destroyContents_(_, _, _, _)
destroyContents_(w, array, i, n) ==
  IF i < n THEN destroyContents_(Destroy(w, array, i), array, i + 1, n)
  ELSE w

\* grow_(size_t capNew)
grow_cap(w, v, capNew, lands) ==
  LET storeNew == NewBlock(w)
      L318(g) == [g EXCEPT !.mem[storeNew] =
                    [used |-> TRUE, cap |-> capNew,
                     cell |-> [i \in Cells |-> Raw]]]
      L320(g) == IF g.obj[v].storage_ # Null
                 THEN DeleteBlock(moveContents_(g, storeNew, g.obj[v].storage_,
                                                0, g.obj[v].size_, lands),
                                  g.obj[v].storage_)
                 ELSE g
      L323(g) == [g EXCEPT !.obj[v].storage_ = storeNew,
                           !.obj[v].capacity_ = capNew]
  IN L323(L320(L318(w)))

\* grow_()
grow_(w, v, lands) ==
  grow_cap(w, v,
           IF w.obj[v].storage_ = Null THEN kSzDefault_
           ELSE 2 * w.obj[v].capacity_,
           lands)

\* vector::iterator: the vector it was made by and a pointer into storage_.
VecIter(home, ptr) == [home |-> home, ptr |-> ptr]

\* vector::begin
vector_begin(w, v) == VecIter(v, w.obj[v].storage_)

\* vector::end
vector_end(w, v) == VecIter(v, w.obj[v].storage_ + w.obj[v].size_)

\* vector::size
vector_size(w, v) == w.obj[v].size_

\* checkPosition_: does it throw index_out_of_bound?
checkPosition_(w, v, pos) == pos >= w.obj[v].size_

\* checkNonEmpty_: does it throw container_is_empty?
checkNonEmpty_(w, v) == w.obj[v].size_ = 0

\* vector::at
vector_at(w, v, pos) ==
  IF checkPosition_(w, v, pos) THEN [threw |-> TRUE, ret |-> Raw]
  ELSE [threw |-> FALSE, ret |-> w.mem[w.obj[v].storage_].cell[pos]]

\* vector::clear
vector_clear(w, v) ==
  LET L227(g) == IF g.obj[v].storage_ = Null THEN g
                 ELSE destroyContents_(g, g.obj[v].storage_, 0, g.obj[v].size_)
      L228(g) == DeleteBlock(g, g.obj[v].storage_)
      L229(g) == [g EXCEPT !.obj[v] = VectorInit]
  IN L229(L228(L227(w)))

\* vector::operator=
vector_Assign(w, v, other, lands) ==
  LET L153(g) == grow_cap(g, v, g.obj[other].capacity_, lands)
      L154(g) == [g EXCEPT !.obj[v].size_ = g.obj[other].size_]
      L155(g) == IF g.obj[other].storage_ = Null THEN g
                 ELSE copyContents_(g, g.obj[v].storage_, g.obj[other].storage_,
                                    0, g.obj[v].size_, lands)
  IN IF v = other THEN w ELSE L155(L154(L153(vector_clear(w, v))))

\* The loop of vector::insert: i runs from size_ down to ix + 1.
RECURSIVE ShiftUp(_, _, _, _, _)
ShiftUp(w, at, i, ix, lands) ==
  IF i > ix
  THEN ShiftUp(Write(w, at, i, w.mem[at].cell[i - 1], lands), at, i - 1, ix,
               lands)
  ELSE w

\* vector::insert(const size_t &ix, const T &value)
vector_insert(w, v, ix, value, lands) ==
  LET L246(g) == IF g.obj[v].size_ = g.obj[v].capacity_ THEN grow_(g, v, lands)
                 ELSE g
      L247(g) == ShiftUp(g, g.obj[v].storage_, g.obj[v].size_, ix, lands)
      L250(g) == Write(g, g.obj[v].storage_, ix, value, lands)
      L251(g) == [g EXCEPT !.obj[v].size_ = @ + 1]
      L252(g) == [w |-> g, threw |-> FALSE,
                  ret |-> VecIter(v, g.obj[v].storage_ + ix)]
  IN IF ix > w.obj[v].size_
     THEN [w |-> w, threw |-> TRUE, ret |-> VecIter(v, Null)]
     ELSE L252(L251(L250(L247(L246(w)))))

\* The loop of vector::erase: i runs from ix while i + 1 < size_.
RECURSIVE ShiftDown(_, _, _, _, _)
ShiftDown(w, at, i, n, lands) ==
  IF i + 1 < n
  THEN ShiftDown(Write(w, at, i, w.mem[at].cell[i + 1], lands), at, i + 1, n,
                 lands)
  ELSE w

\* Mutant of vector_erase: the loop starts one index late.
vector_erase_LateShift(w, v, ix, lands) ==
  LET L267(g) == ShiftDown(g, g.obj[v].storage_, ix + 1, g.obj[v].size_, lands)
      L270(g) == Destroy(g, g.obj[v].storage_, g.obj[v].size_ - 1)
      L271(g) == [g EXCEPT !.obj[v].size_ = @ - 1]
      L272(g) == [w |-> g, threw |-> FALSE,
                  ret |-> VecIter(v, g.obj[v].storage_ + ix)]
  IN IF checkPosition_(w, v, ix)
     THEN [w |-> w, threw |-> TRUE, ret |-> VecIter(v, Null)]
     ELSE L272(L271(L270(L267(w))))

\* vector::erase(const size_t &ix)
vector_erase(w, v, ix, lands) ==
  LET L267(g) == ShiftDown(g, g.obj[v].storage_, ix, g.obj[v].size_, lands)
      L270(g) == Destroy(g, g.obj[v].storage_, g.obj[v].size_ - 1)
      L271(g) == [g EXCEPT !.obj[v].size_ = @ - 1]
      L272(g) == [w |-> g, threw |-> FALSE,
                  ret |-> VecIter(v, g.obj[v].storage_ + ix)]
  IN IF checkPosition_(w, v, ix)
     THEN [w |-> w, threw |-> TRUE, ret |-> VecIter(v, Null)]
     ELSE L272(L271(L270(L267(w))))

\* vector::push_back
push_back(w, v, value, lands) ==
  LET L278(g) == IF g.obj[v].size_ = g.obj[v].capacity_ THEN grow_(g, v, lands)
                 ELSE g
      L279(g) == Write(g, g.obj[v].storage_, g.obj[v].size_, value, lands)
      L280(g) == [g EXCEPT !.obj[v].size_ = @ + 1]
  IN L280(L279(L278(w)))

\* vector::pop_back
pop_back(w, v) ==
  LET L288(g) == Destroy(g, g.obj[v].storage_, g.obj[v].size_ - 1)
      L289(g) == [g EXCEPT !.obj[v].size_ = @ - 1]
  IN IF checkNonEmpty_(w, v) THEN [w |-> w, threw |-> TRUE]
     ELSE [w |-> L289(L288(w)), threw |-> FALSE]

\* vector::iterator::operator-(const iterator &rhs), as it is written:
\* `return ptr_ = rhs.ptr_;`.  The expression assigns rhs.ptr_ to ptr_ and
\* has the assigned pointer as its value, which is returned as the int.
iterator_minus(this, rhs) ==
  IF this.home # rhs.home THEN [threw |-> TRUE, ret |-> 0, it |-> this]
  ELSE [threw |-> FALSE, ret |-> rhs.ptr,
        it |-> [this EXCEPT !.ptr = rhs.ptr]]

----------------------------------------------------------------------------
\* insert, erase, ++ and -- one call or loop iteration at a time

\* emplace_ on a tree that is not empty, up to the call of fixupInsert_
\* (lines 483-490): [h, T, has, node]; has tells that the value was found.
emplace_Place(h, T, value, a) ==
  LET L486(g, newNode) ==
        [g EXCEPT ![newNode].type =
           IF newNode = root_(g, T) THEN kBlack ELSE kRed]
      L490(g, newNode) ==
        IF g[T.leftmost_].left # Null THEN [T EXCEPT !.leftmost_ = newNode]
        ELSE T
      L487(g, newNode) ==
        [h |-> g, T |-> L490(g, newNode), has |-> FALSE, node |-> newNode]
      L484(dup) ==
        IF dup.has THEN [h |-> h, T |-> T, has |-> TRUE, node |-> dup.node]
        ELSE L487(L486(dup.h, dup.node), dup.node)
  IN L484(Node_emplace(h, root_(h, T), value, a))

\* One call of fixupInsert_(node): [h, again, node].  again tells that the
\* call ends in `return fixupInsert_(node->parent->parent)` (line 509); h is
\* then the heap at that call and node its argument.  Otherwise h is the
\* heap when the call returns.
fixupInsert_Call(h, T, node) ==
  LET grandParent == h[h[node].parent].parent
      uncle == Get(h, grandParent, getTagPair_(isLeft(h, h[node].parent)).right)
      L505(g) == [g EXCEPT ![g[node].parent].type = kBlack]
      L506(g) == [g EXCEPT ![grandParent].type =
                    IF grandParent = root_(g, T) THEN kBlack ELSE kRed]
      L507(g) == [g EXCEPT ![uncle].type = kBlack]
  IN IF /\ h[h[node].parent].type = kRed
        /\ node # root_(h, T)
        /\ uncle # Null
        /\ h[uncle].type = kRed
       THEN [h     |-> L507(L506(L505(h))),
             again |-> TRUE,
             node  |-> L507(L506(L505(h)))[h[node].parent].parent]
     ELSE [h |-> fixupInsert_(h, T, node), again |-> FALSE, node |-> node]

\* emplace_ after fixupInsert_ has returned (line 492).
emplace_Finish(h, T) == [h EXCEPT ![root_(h, T)].type = kBlack]

\* delete_ up to the fix-up (lines 526-545): [h, T, fix, neighborY]; fix
\* tells that the call fixupDelete_(neighborY) of line 548 comes next.
delete_Splice(h, T, node) ==
  LET T1 == IF node = T.leftmost_ THEN [T EXCEPT !.leftmost_ = next(h, node)]
            ELSE T
      notFull == h[node].left = Null \/ h[node].right = Null
      y == IF notFull THEN node ELSE min(h, h[node].right)
      childY == IF h[y].left # Null THEN h[y].left ELSE h[y].right
      neighborY == IF y = root_(h, T1) THEN Null ELSE neighbor(h, y)
      L536(g) == replace(g, y, childY)
      shouldFixup(g) == g[y].type = kBlack /\ root_(g, T1) # Null
      L539(g) == replace(g, node, y)
      L540(g) == [g EXCEPT ![y].left = g[node].left]
      L541(g) == [g EXCEPT ![g[y].left].parent = y]
      L542(g) == [g EXCEPT ![y].right = g[node].right]
      L543(g) == IF g[y].right # Null THEN [g EXCEPT ![g[y].right].parent = y]
                 ELSE g
      L544(g) == [g EXCEPT ![y].type = g[node].type]
      L538(g) == IF node # y THEN L544(L543(L542(L541(L540(L539(g))))))
                 ELSE g
  IN [h         |-> L538(L536(h)),
      T         |-> T1,
      fix       |-> shouldFixup(L536(h)) /\ childY = Null,
      neighborY |-> neighborY]

\* One call of fixupDelete_(neighbor): [h, again, node].  again tells that
\* the call ends in `return fixupDelete_(parent->neighbor())` (line 574); h
\* is then the heap at that call and node its argument.  Otherwise h is the
\* heap when the call returns.
fixupDelete_Call(h, T, neighborArg) ==
  LET dir == getTagPair_(~isLeft(h, neighborArg))
      red == h[neighborArg].type = kRed
      L560(g) == [g EXCEPT ![neighborArg].type = kBlack]
      L561(g) == [g EXCEPT ![g[neighborArg].parent].type = kRed]
      L562(g) == rotate_(g, g[neighborArg].parent, dir)
      L563(g) == Get(g, Get(g, neighborArg, dir.left), dir.right)
      L566(g, nb) == [g EXCEPT ![nb].type = kRed]
      Recurse(g, nb) ==
        /\ nb # Null
        /\ nullOrBlack(g, g[nb].left) /\ nullOrBlack(g, g[nb].right)
        /\ g[nb].parent # root_(g, T)
        /\ g[g[nb].parent].type # kRed
      L574(g, nb) == [h     |-> L566(g, nb),
                      again |-> TRUE,
                      node  |-> neighbor(L566(g, nb), g[nb].parent)]
      Return == [h     |-> fixupDelete_(h, T, neighborArg),
                 again |-> FALSE,
                 node  |-> neighborArg]
      AfterRed(g) == IF Recurse(g, L563(g)) THEN L574(g, L563(g)) ELSE Return
  IN IF neighborArg = Null THEN Return
     ELSE IF red THEN AfterRed(L562(L561(L560(h))))
     ELSE IF Recurse(h, neighborArg) THEN L574(h, neighborArg)
     ELSE Return

\* Mutant of Climb: the body of the loop leaves `node` where it is.
Climb_Stay(h, pc, node) ==
  IF (pc = "next" /\ ~isLeft(h, node)) \/ (pc = "prev" /\ isLeft(h, node))
    THEN [again |-> TRUE, node |-> node, ret |-> Null]
  ELSE [again |-> FALSE, node |-> node, ret |-> h[node].parent]

\* One test of the loop condition of Node::next (line 365) or Node::prev
\* (line 372) with the local `node`: [again, node, ret]; again tells that the
\* body ran, node being the local after it; otherwise ret is returned.
Climb(h, pc, node) ==
  IF (pc = "next" /\ ~isLeft(h, node)) \/ (pc = "prev" /\ isLeft(h, node))
    THEN [again |-> TRUE, node |-> h[node].parent, ret |-> Null]
  ELSE [again |-> FALSE, node |-> node, ret |-> h[node].parent]

\* The calls and iterations counted in one operation (never reached: a
\* tree of MaxKeyStep elements is less deep).
MaxCalls == MaxKeyStep + 2

\* No call is in progress.
Idle == [pc |-> "idle", node |-> Null, arg |-> Null, calls |-> 0]

----------------------------------------------------------------------------
\* The state machine

Alive(t) == tree[t].endNode_ # Null

\* Nodes linked below n (depth-limited so that it is defined on any heap).
RECURSIVE Below(_, _, _)
Below(h, n, d) ==
  IF n = Null \/ d = 0 THEN {}
  ELSE {n} \cup Below(h, h[n].left, d - 1) \cup Below(h, h[n].right, d - 1)

\* The value nodes of tree t.
RealNodes(h, T) == Below(h, h[T.endNode_].left, MaxAddr)
StoredValues(h, T) == {h[n].value : n \in RealNodes(h, T)}

\* Values a test program inserts: all of them while tree 1 is alone, the
\* small ones while tree 2 is alive.
InsertValues == IF Alive(2) THEN 1..MaxKeyCopy ELSE 1..MaxKey

\* Iterators a program can hold: begin()/find()/++ results and end() of an
\* alive tree.
Iterators ==
  UNION {{[node |-> n, home |-> u] :
            n \in RealNodes(heap, tree[u]) \cup {tree[u].endNode_}} :
         u \in {x \in Trees : Alive(x)}}

\* What the operation just done was applied to (recorded, not program state):
\* for erase, how the target sat in the tree and whether the iterator belonged
\* to another tree.
\* climb: the target is a black leaf whose parent is black and not the root
\* and whose sibling is black without a red child, so that the fix-up has to
\* go on one level up.
Climbs(h, T, n) ==
  /\ n # root_(h, T) /\ h[n].parent # root_(h, T)
  /\ h[n].left = Null /\ h[n].right = Null
  /\ h[n].type = kBlack /\ h[h[n].parent].type = kBlack
  /\ neighbor(h, n) # Null /\ h[neighbor(h, n)].type = kBlack
  /\ nullOrBlack(h, h[neighbor(h, n)].left)
  /\ nullOrBlack(h, h[neighbor(h, n)].right)
Shape(h, T, pos, this) ==
  [kids    |-> Cardinality({h[pos.node].left, h[pos.node].right} \ {Null}),
   root    |-> pos.node = root_(h, T),
   black   |-> h[pos.node].type = kBlack,
   climb   |-> pos.home = this /\ pos.node # end(T) /\ Climbs(h, T, pos.node),
   foreign |-> pos.home # this]
NoShape == [kids |-> 0, root |-> FALSE, black |-> FALSE, climb |-> FALSE,
            foreign |-> FALSE]

\* op: the operation; t: the tree it ran on; key: its value argument (erase:
\* the value at pos; clear: the size the tree had); node: the node of the iterator returned (erase: of pos);
\* ok: inserted / did not throw; rootMoved: another node is the root now;
\* ret: what a lookup returned (the node of the iterator); pos: the node_ of
\* the iterator operand after ++ or --.
Last(op, t, key, node, ok, shape) ==
  [op |-> op, t |-> t, key |-> key, node |-> node, ok |-> ok, shape |-> shape,
   rootMoved |-> FALSE, ret |-> Null, pos |-> Null]

\* RbTree() of tree 1.  All addresses are free and alike; the first end node
\* gets the lowest.
Init ==
  \E a \in {x \in EndPool(1) : \A y \in EndPool(1) : x <= y} :
    LET Done(i) ==
          /\ heap = i.h
          /\ live = i.live
          /\ tree = [t \in Trees |-> IF t = 1 THEN i.T ELSE NoTree]
          /\ last = Last("init", 1, 0, a, TRUE, NoShape)
          /\ vec = VecInit
          /\ run = Idle
    IN Done(init_([x \in {Null} \cup Addrs |-> FreeNode], {}, a))

\* Every action stores the results r of the operation it ran.
Store(t, r, T, l) ==
  /\ heap' = r.h
  /\ live' = r.live
  /\ tree' = [tree EXCEPT ![t] = T]
  /\ last' = [l EXCEPT !.rootMoved = root_(r.h, T) # root_(heap, tree[t])]
  /\ UNCHANGED <<vec, run>>

Insert(t, v) ==
  /\ Alive(t)
  /\ v \in InsertValues
  /\ LET Done(r) == Store(t, r, r.T, Last("insert", t, v, r.node, r.inserted,
                                          NoShape))
     IN Done(insert(heap, live, tree[t], v, NewAddr(live, t, v)))

Erase(t, pos) ==
  /\ Alive(t)
  /\ LET Done(r) ==
           Store(t, r, r.T,
                 Last("erase", t, heap[pos.node].value, pos.node, ~r.threw,
                      Shape(heap, tree[t], pos, t)))
     IN Done(erase(heap, live, tree[t], t, pos))

Clear(t) ==
  /\ Alive(t)
  /\ \E a \in FreeEndAddrs(destroy_(heap, live, tree[t]).live, t) :
       LET Done(r) == Store(t, r, r.T, Last("clear", t, size(tree[t]), a, TRUE,
                                            NoShape))
       IN Done(clear(heap, live, tree[t], a))

CopyAssign(t, u) ==
  /\ Alive(t) /\ Alive(u)
  /\ \E a \in IF t = u THEN {tree[t].endNode_}
              ELSE FreeEndAddrs(destroy_(heap, live, tree[t]).live, t) :
       LET Done(r) == Store(t, r, r.T, Last("assign", t, u, r.T.endNode_, TRUE,
                                            NoShape))
       IN Done(Assign(heap, live, tree[t], t, tree[u], u, a))

\* RbTree(const RbTree &other): tree 2 constructed as a copy of tree 1.
CopyConstruct ==
  /\ ~Alive(2)
  /\ StoredValues(heap, tree[1]) \subseteq 1..MaxKeyCopy
  /\ \E a \in FreeEndAddrs(live, 2) :
       LET Done(r) == Store(2, r, r.T, Last("copy", 2, 1, r.T.endNode_, TRUE,
                                            NoShape))
       IN Done(Assign(heap, live, NoTree, 2, tree[1], 1, a))

\* ~RbTree() of tree 2.
Destruct ==
  /\ Alive(2)
  /\ LET Done(r) == Store(2, r, r.T, Last("destruct", 2, 0, Null, TRUE, NoShape))
     IN Done(destroy_(heap, live, tree[2]))

Next ==
  \/ \E t \in Trees, v \in 1..MaxKey : Insert(t, v)
  \/ \E t \in Trees : \E pos \in Iterators : Erase(t, pos)
  \/ \E t \in Trees : Clear(t)
  \/ \E t \in Trees, u \in Trees : CopyAssign(t, u)
  \/ CopyConstruct
  \/ Destruct

Spec == Init /\ [][Next]_vars

\* SpecDeep: insert and erase on tree 1 alone, over more values; of the last
\* operation only its kind and the shape it met are recorded.
Coarse(l) == [l EXCEPT !.key = 0, !.node = Null]

DeepInsert(v) ==
  LET Done(r) == Store(1, r, r.T, Coarse(Last("insert", 1, v, r.node,
                                              r.inserted, NoShape)))
  IN Done(insert(heap, live, tree[1], v, NewAddr(live, 1, v)))

DeepErase(pos) ==
  LET Done(r) == Store(1, r, r.T, Coarse(Last("erase", 1, 0, pos.node, ~r.threw,
                                              Shape(heap, tree[1], pos, 1))))
  IN Done(erase(heap, live, tree[1], 1, pos))

NextDeep ==
  \/ \E v \in 1..MaxKeyDeep : DeepInsert(v)
  \/ \E pos \in Iterators : DeepErase(pos)

SpecDeep == Init /\ [][NextDeep]_vars

\* SpecIter: insert, erase and clear on tree 1, and the operations that read
\* it: ++ and -- of an iterator, find.
Called(l, r) ==
  /\ last' = [l EXCEPT !.ret = r.ret, !.pos = r.it.node]
  /\ UNCHANGED <<heap, live, tree, vec, run>>

PostIncrement(it) ==
  Called(Last("++post", it.home, 0, it.node, ~iterator_postinc(heap, tree, it).threw,
              NoShape),
         iterator_postinc(heap, tree, it))

PreIncrement(it) ==
  Called(Last("++pre", it.home, 0, it.node, ~iterator_preinc(heap, tree, it).threw,
              NoShape),
         iterator_preinc(heap, tree, it))

PostDecrement(it) ==
  Called(Last("--post", it.home, 0, it.node, ~iterator_postdec(heap, tree, it).threw,
              NoShape),
         iterator_postdec(heap, tree, it))

PreDecrement(it) ==
  Called(Last("--pre", it.home, 0, it.node, ~iterator_predec(heap, tree, it).threw,
              NoShape),
         iterator_predec(heap, tree, it))

Find(t, key) ==
  /\ Alive(t)
  /\ last' = [Last("find", t, key, Null, TRUE, NoShape)
               EXCEPT !.ret = find(heap, tree[t], key)]
  /\ UNCHANGED <<heap, live, tree, vec, run>>

NextIter ==
  \/ \E v \in 1..MaxKeyIter : Insert(1, v)
  \/ \E pos \in Iterators : Erase(1, pos)
  \/ Clear(1)
  \/ \E it \in Iterators : PostIncrement(it)
  \/ \E it \in Iterators : PreIncrement(it)
  \/ \E it \in Iterators : PostDecrement(it)
  \/ \E it \in Iterators : PreDecrement(it)
  \/ \E t \in Trees, key \in 1..MaxKeyIter : Find(t, key)

SpecIter == Init /\ [][NextIter]_vars

\* SpecMap: a map whose tree_ is tree 1: insert, erase, at, operator[].
MapInsert(k, m) ==
  LET Done(r) == Store(1, r, r.T, Last("insert", 1, Pair(k, m), r.node,
                                       r.inserted, NoShape))
  IN Done(map_insert(heap, live, tree[1], Pair(k, m),
                     NewAddr(live, 1, Pair(k, m))))

MapErase(pos) ==
  LET Done(r) ==
        Store(1, r, r.T,
              Last("erase", 1, heap[pos.node].value, pos.node, ~r.threw,
                   Shape(heap, tree[1], pos, 1)))
  IN Done(map_erase(heap, live, tree[1], 1, pos))

Looked(l, r) ==
  /\ last' = [l EXCEPT !.ret = r.ret, !.node = r.node, !.ok = ~r.threw]
  /\ UNCHANGED <<heap, live, tree, vec, run>>

MapAt(key) ==
  Looked(Last("at", 1, key, Null, TRUE, NoShape), map_at(heap, tree[1], key))

MapIndexConst(key) ==
  Looked(Last("[]const", 1, key, Null, TRUE, NoShape),
         map_index_const(heap, tree[1], key))

MapIndex(key) ==
  LET Done(r) == Store(1, r, r.T,
                       [Last("[]", 1, key, r.node, r.inserted, NoShape)
                          EXCEPT !.ret = r.ret])
  IN Done(map_index(heap, live, tree[1], key, NewAddr(live, 1, key)))

NextMap ==
  \/ \E k \in 1..MaxKeyMap, m \in 0..MaxMapped : MapInsert(k, m)
  \/ \E pos \in Iterators : MapErase(pos)
  \/ \E key \in 1..MaxKeyMap : MapAt(key)
  \/ \E key \in 1..MaxKeyMap : MapIndexConst(key)
  \/ \E key \in 1..MaxKeyMap : MapIndex(key)

SpecMap == Init /\ [][NextMap]_vars

\* SpecCopy: tree 1 grows and shrinks while it is the only tree; tree 2 is
\* constructed as a copy of it, assigned from it and to it, and destroyed.
CopyConstructFrom1 ==
  /\ ~Alive(2)
  /\ \E a \in FreeEndAddrs(live, 2) :
       LET Done(r) == Store(2, r, r.T, Last("copy", 2, 1, r.T.endNode_, TRUE,
                                            NoShape))
       IN Done(Assign(heap, live, NoTree, 2, tree[1], 1, a))

NextCopy ==
  \/ \E v \in 1..MaxKeyClone : ~Alive(2) /\ Insert(1, v)
  \/ \E pos \in Iterators : ~Alive(2) /\ Erase(1, pos)
  \/ CopyConstructFrom1
  \/ \E t \in Trees, u \in Trees : CopyAssign(t, u)
  \/ Destruct

SpecCopy == Init /\ [][NextCopy]_vars

\* SpecVec: vector 1 under insert, erase, push_back, pop_back, clear and
\* operator= from itself and from vector 2, which stays as its default
\* constructor left it.  Nothing runs after an access outside an array: the
\* behaviour of the program is undefined from there on.
VecStore(l, w) ==
  /\ vec' = w
  /\ last' = l
  /\ UNCHANGED <<heap, live, tree, run>>

VecIterators ==
  {VecIter(v, vec.obj[v].storage_ + i) :
     v \in Vectors, i \in 0..MaxVecSize} \cap
  UNION {{VecIter(v, vec.obj[v].storage_ + i) : i \in 0..vec.obj[v].size_} :
           v \in Vectors}

VecInsert(v, ix, value) ==
  /\ ~vec.ub
  /\ vec.obj[v].size_ < MaxVecSize
  /\ \E lands \in BOOLEAN :
       LET Done(r) ==
             VecStore([Last("v.insert", v, value, ix, ~r.threw, NoShape)
                         EXCEPT !.ret = r.ret.ptr],
                      r.w)
       IN Done(vector_insert(vec, v, ix, value, lands))

VecErase(v, ix) ==
  /\ ~vec.ub
  /\ \E lands \in BOOLEAN :
       LET Done(r) ==
             VecStore([Last("v.erase", v, 0, ix, ~r.threw, NoShape)
                         EXCEPT !.ret = r.ret.ptr],
                      r.w)
       IN Done(vector_erase(vec, v, ix, lands))

VecPushBack(v, value) ==
  /\ ~vec.ub
  /\ vec.obj[v].size_ < MaxVecSize
  /\ \E lands \in BOOLEAN :
       VecStore(Last("v.push_back", v, value, Null, TRUE, NoShape),
                push_back(vec, v, value, lands))

VecPopBack(v) ==
  /\ ~vec.ub
  /\ VecStore(Last("v.pop_back", v, 0, Null, ~pop_back(vec, v).threw, NoShape),
              pop_back(vec, v).w)

VecClear(v) ==
  /\ ~vec.ub
  /\ VecStore(Last("v.clear", v, 0, Null, TRUE, NoShape), vector_clear(vec, v))

VecAssign(v, other) ==
  /\ ~vec.ub
  /\ vec.obj[other].size_ <= MaxVecCopy
  /\ \E lands \in BOOLEAN :
       VecStore(Last("v.=", v, other, Null, TRUE, NoShape),
                vector_Assign(vec, v, other, lands))

\* a - b: t and node are home_ and ptr_ of a, key and pos those of b.
VecMinus(a, b) ==
  /\ ~vec.ub
  /\ LET Done(r) ==
           VecStore([Last("v.it-", a.home, b.home, a.ptr, ~r.threw, NoShape)
                       EXCEPT !.ret = r.ret, !.pos = b.ptr],
                    vec)
     IN Done(iterator_minus(a, b))

NextVec ==
  \/ \E ix \in 0..MaxVecSize, value \in Elems : VecInsert(1, ix, value)
  \/ \E ix \in 0..MaxVecSize : VecErase(1, ix)
  \/ \E value \in Elems : VecPushBack(1, value)
  \/ VecPopBack(1)
  \/ VecClear(1)
  \/ \E other \in Vectors : VecAssign(1, other)

SpecVec == Init /\ [][NextVec]_vars

\* SpecVecIter: the difference of two iterators of two vectors that grow
\* and shrink at the back (by equal elements: the iterators do not read them)
\* and are assigned to each other.
NextVecIter ==
  \/ \E v \in Vectors : vec.obj[v].size_ < MaxVecIter /\ VecPushBack(v, 1)
  \/ \E v \in Vectors : VecPopBack(v)
  \/ \E v \in Vectors : VecClear(v)
  \/ \E v \in Vectors, other \in Vectors : VecAssign(v, other)
  \/ \E a \in VecIterators, b \in VecIterators : VecMinus(a, b)

SpecVecIter == Init /\ [][NextVecIter]_vars

\* SpecStep: tree 1; insert, erase, ++ and -- run one call of fixupInsert_,
\* one call of fixupDelete_ and one iteration of the climbing loops at a
\* time.  run.pc is the function executing, run.node its argument (the local
\* `node` of the loops), run.arg the node inserted or to delete, run.calls
\* counts the recursive calls (the iterations of the loop) made so far.
StepStore(h, lv, T, r) ==
  /\ heap' = h
  /\ live' = lv
  /\ tree' = [tree EXCEPT ![1] = T]
  /\ run' = r
  /\ UNCHANGED <<last, vec>>

\* insert(v) up to the first call of fixupInsert_, or all of it when there is
\* no such call.
StepInsert(v) ==
  /\ run.pc = "idle"
  /\ LET a == NewAddr(live, 1, v)
         Whole(r) == StepStore(r.h, r.live, r.T, Idle)
         Begun(p) ==
           IF p.has THEN Whole(insert(heap, live, tree[1], v, a))
           ELSE StepStore(p.h, live \cup {a}, p.T,
                          [pc |-> "fixupInsert_", node |-> p.node,
                           arg |-> p.node, calls |-> 0])
     IN IF root_(heap, tree[1]) = Null
          THEN Whole(insert(heap, live, tree[1], v, a))
        ELSE Begun(emplace_Place(heap, tree[1], v, a))

\* A call of fixupInsert_; when it returns, the rest of emplace_ and insert.
StepFixupInsert ==
  /\ run.pc = "fixupInsert_"
  /\ run.calls < MaxCalls
  /\ LET Done(r) ==
           IF r.again
             THEN StepStore(r.h, live, tree[1],
                            [run EXCEPT !.node = r.node, !.calls = @ + 1])
           ELSE StepStore(emplace_Finish(r.h, tree[1]), live,
                          [tree[1] EXCEPT !.size_ = @ + 1], Idle)
     IN Done(fixupInsert_Call(heap, tree[1], run.node))

\* erase(pos) up to the first call of fixupDelete_, or all of it when there
\* is no such call.
StepErase(pos) ==
  /\ run.pc = "idle"
  /\ LET Whole(r) == StepStore(r.h, r.live, r.T, Idle)
         Begun(d) ==
           IF d.fix
             THEN StepStore(d.h, live, d.T,
                            [pc |-> "fixupDelete_", node |-> d.neighborY,
                             arg |-> pos.node, calls |-> 0])
           ELSE Whole(erase(heap, live, tree[1], 1, pos))
     IN IF pos.node = tree[1].endNode_ \/ pos.home # 1
          THEN Whole(erase(heap, live, tree[1], 1, pos))
        ELSE Begun(delete_Splice(heap, tree[1], pos.node))

\* A call of fixupDelete_; when it returns, the rest of erase.
StepFixupDelete ==
  /\ run.pc = "fixupDelete_"
  /\ run.calls < MaxCalls
  /\ LET Done(r) ==
           IF r.again
             THEN StepStore(r.h, live, tree[1],
                            [run EXCEPT !.node = r.node, !.calls = @ + 1])
           ELSE StepStore([r.h EXCEPT ![run.arg] = FreeNode],
                          live \ {run.arg},
                          [tree[1] EXCEPT !.size_ = @ - 1], Idle)
     IN Done(fixupDelete_Call(heap, tree[1], run.node))

\* ++it on a node without right child: Node::next up to the loop.
StepNext(it) ==
  /\ run.pc = "idle"
  /\ size(tree[1]) <= MaxKeyClimb
  /\ it.node # tree[it.home].endNode_
  /\ heap[it.node].right = Null
  /\ StepStore(heap, live, tree[1],
               [pc |-> "next", node |-> it.node, arg |-> it.node,
                calls |-> 0])

\* --it on a node without left child: Node::prev up to the loop.
StepPrev(it) ==
  /\ run.pc = "idle"
  /\ size(tree[1]) <= MaxKeyClimb
  /\ it.node # tree[it.home].leftmost_
  /\ heap[it.node].left = Null
  /\ StepStore(heap, live, tree[1],
               [pc |-> "prev", node |-> it.node, arg |-> it.node,
                calls |-> 0])

\* One test of the loop condition, and the body or the return.
StepClimb ==
  /\ run.pc \in {"next", "prev"}
  /\ run.calls < MaxCalls
  /\ LET Done(r) ==
           IF r.again
             THEN StepStore(heap, live, tree[1],
                            [run EXCEPT !.node = r.node, !.calls = @ + 1])
           ELSE StepStore(heap, live, tree[1], Idle)
     IN Done(Climb(heap, run.pc, run.node))

NextStep ==
  \/ \E v \in 1..MaxKeyStep : StepInsert(v)
  \/ StepFixupInsert
  \/ \E pos \in Iterators : StepErase(pos)
  \/ StepFixupDelete
  \/ \E it \in Iterators : StepNext(it)
  \/ \E it \in Iterators : StepPrev(it)
  \/ StepClimb

SpecStep == Init /\ [][NextStep]_vars

----------------------------------------------------------------------------
\* Properties

AliveTrees == {t \in Trees : Alive(t)}

\* The tree the last operation ran on.
LastTree == tree[last.t]

\* The nodes ++ visits from n until end(), giving up after `fuel` steps.
RECURSIVE Walk(_, _, _, _)
Walk(h, T, n, fuel) ==
  IF n = end(T) \/ fuel = 0 THEN <<>>
  ELSE <<n>> \o Walk(h, T, next(h, n), fuel - 1)

\* begin() ... end() by ++
Traversal(h, T) == Walk(h, T, begin(T), MaxAddr)
ReachesEnd(h, T) == Len(Traversal(h, T)) < MaxAddr

StrictlyIncreasing(h, nodes) ==
  \A i \in 1..(Len(nodes) - 1) : Cmp(h[nodes[i]].value, h[nodes[i + 1]].value)

SearchOrdered(h, T) ==
  \A n \in RealNodes(h, T) :
    /\ \A m \in Below(h, h[n].left, MaxAddr) : Cmp(h[m].value, h[n].value)
    /\ \A m \in Below(h, h[n].right, MaxAddr) : Cmp(h[n].value, h[m].value)

NoEquivalent(h, T) ==
  \A n, m \in RealNodes(h, T) :
    n # m => Cmp(h[n].value, h[m].value) \/ Cmp(h[m].value, h[n].value)

\* C1: in every tree, the traversal from begin() to end() visits every stored
\* element in strictly increasing order, no two stored elements are
\* equivalent, and every node's left subtree is less and right subtree greater.
C1_SortedUnique ==
  \A t \in AliveTrees :
    /\ ReachesEnd(heap, tree[t])
    /\ StrictlyIncreasing(heap, Traversal(heap, tree[t]))
    /\ {Traversal(heap, tree[t])[i] : i \in 1..Len(Traversal(heap, tree[t]))}
         = RealNodes(heap, tree[t])
    /\ NoEquivalent(heap, tree[t])
    /\ SearchOrdered(heap, tree[t])

\* An erase of a node with two children (successor transplanted) has acted.
C1_Witness ==
  /\ last.op = "erase" /\ last.ok /\ last.shape.kids = 2
  /\ size(LastTree) >= 4

\* Black nodes on every path from n down to null, or -1 when paths differ.
RECURSIVE BlackHeight(_, _)
BlackHeight(h, n) ==
  IF n = Null THEN 0
  ELSE LET Join(l, r) ==
             IF l = -1 \/ r = -1 \/ l # r THEN -1
             ELSE l + (IF h[n].type = kBlack THEN 1 ELSE 0)
       IN Join(BlackHeight(h, h[n].left), BlackHeight(h, h[n].right))

\* C2: in every tree all paths from a node to a null descendant pass through
\* the same number of black nodes.
C2_BlackHeight ==
  \A t \in AliveTrees : BlackHeight(heap, root_(heap, tree[t])) # -1

\* An erase of a black leaf has acted whose fix-up (fixupDelete_) had to go
\* on at the parent's sibling.
C2_Witness ==
  /\ last.op = "erase" /\ last.ok /\ last.shape.climb
  /\ BlackHeight(heap, root_(heap, LastTree)) >= 2

\* C3: no red node has a red child.
C3_NoRedRed ==
  \A t \in AliveTrees :
    \A n \in RealNodes(heap, tree[t]) :
      heap[n].type = kRed =>
        nullOrBlack(heap, heap[n].left) /\ nullOrBlack(heap, heap[n].right)

\* An insert whose fix-up rotated at the root has acted.
C3_Witness ==
  /\ last.op = "insert" /\ last.ok /\ last.rootMoved
  /\ size(LastTree) >= 5

\* C4: the root is black, or the tree is empty.
C4_RootBlack ==
  \A t \in AliveTrees :
    root_(heap, tree[t]) = Null \/ heap[root_(heap, tree[t])].type = kBlack

\* An erase below the root whose fix-up rotated at the root has acted.
C4_Witness ==
  /\ last.op = "erase" /\ last.ok /\ ~last.shape.root /\ last.rootMoved
  /\ root_(heap, LastTree) # Null

\* C5: size() is the number of value-holding nodes and the number of ++ steps
\* from begin() to end(); empty() holds exactly when it is 0.
C5_Size ==
  \A t \in AliveTrees :
    /\ size(tree[t]) =
         Cardinality({n \in RealNodes(heap, tree[t]) : heap[n].has})
    /\ ReachesEnd(heap, tree[t])
    /\ size(tree[t]) = Len(Traversal(heap, tree[t]))
    /\ empty(tree[t]) <=> Len(Traversal(heap, tree[t])) = 0

\* A copy-assignment from a tree of another size has acted.
C5_Witness ==
  /\ last.op = "assign" /\ last.t # last.key
  /\ size(LastTree) >= 2

\* The node holding the least value, end() when there is none.
MinNode(h, T) ==
  IF RealNodes(h, T) = {} THEN end(T)
  ELSE CHOOSE n \in RealNodes(h, T) :
         \A m \in RealNodes(h, T) : ~Cmp(h[m].value, h[n].value)

\* C6: begin() is the minimum node, end() when the tree is empty.
C6_Leftmost ==
  \A t \in AliveTrees : begin(tree[t]) = MinNode(heap, tree[t])

\* The minimum has been erased from a tree that still holds elements.
C6_Witness ==
  /\ last.op = "erase" /\ last.ok
  /\ StoredValues(heap, LastTree) # {}
  /\ \A v \in StoredValues(heap, LastTree) : Cmp(last.key, v)

\* Equivalence under the comparator: neither value is less than the other.
Equiv(a, b) == ~Cmp(a, b) /\ ~Cmp(b, a)
HasEquivalent(h, T, v) == \E n \in RealNodes(h, T) : Equiv(h[n].value, v)

\* C7: an insert of a value with no equivalent stored element returns
\* (iterator to a node holding the value, true); the stored values are the old
\* ones plus the value, size() has grown by one and find returns that node;
\* on an empty tree the node is the black root and begin().
C7_InsertNew ==
  [][(last'.op = "insert" /\ ~HasEquivalent(heap, tree[last'.t], last'.key)) =>
       LET t == last'.t
           v == last'.key
           n == last'.node
       IN /\ last'.ok
          /\ n \in RealNodes(heap', tree'[t])
          /\ heap'[n].has /\ heap'[n].value = v
          /\ StoredValues(heap', tree'[t]) =
               StoredValues(heap, tree[t]) \cup {v}
          /\ size(tree'[t]) = size(tree[t]) + 1
          /\ find(heap', tree'[t], v) = n
          /\ empty(tree[t]) =>
               /\ root_(heap', tree'[t]) = n
               /\ heap'[n].type = kBlack
               /\ begin(tree'[t]) = n]_vars

\* An insert of a new value whose fix-up rotated at the root has acted.
C7_Witness ==
  /\ last.op = "insert" /\ last.ok /\ last.rootMoved
  /\ heap[last.node].value = last.key
  /\ size(LastTree) >= 3

\* C8: an insert of a value with an equivalent stored element returns
\* (iterator to that element, false) and changes no node, no link, no colour,
\* neither leftmost nor size.
C8_InsertDuplicate ==
  [][(last'.op = "insert" /\ HasEquivalent(heap, tree[last'.t], last'.key)) =>
       /\ ~last'.ok
       /\ last'.node \in RealNodes(heap, tree[last'.t])
       /\ Equiv(heap[last'.node].value, last'.key)
       /\ UNCHANGED <<heap, live, tree>>]_vars

\* A duplicate insert below the root has acted.
C8_Witness ==
  /\ last.op = "insert" /\ ~last.ok
  /\ last.node # root_(heap, LastTree)
  /\ size(LastTree) >= 3

\* C9: erase of an iterator of this tree that denotes an element with key k
\* does not throw and removes exactly k: the stored values are the old ones
\* minus k, size() has decreased by one, find(k) is end() and the node is freed.
C9_Erase ==
  [][(/\ last'.op = "erase"
      /\ ~last'.shape.foreign
      /\ last'.node # end(tree[last'.t])) =>
       LET t == last'.t
           k == heap[last'.node].value
       IN /\ last'.ok
          /\ StoredValues(heap', tree'[t]) = StoredValues(heap, tree[t]) \ {k}
          /\ size(tree'[t]) = size(tree[t]) - 1
          /\ find(heap', tree'[t], k) = end(tree'[t])
          /\ last'.node \notin live'
          /\ \A u \in Trees \ {t} : tree'[u] = tree[u]]_vars

\* An erase of a root with two children has acted.
C9_Witness ==
  /\ last.op = "erase" /\ last.ok
  /\ last.shape.kids = 2 /\ last.shape.root
  /\ size(LastTree) >= 4

\* C10: erase of end() of this tree, or of an iterator of another tree, throws
\* invalid_iterator and modifies no tree.
C10_EraseInvalid ==
  [][(/\ last'.op = "erase"
      /\ last'.shape.foreign \/ last'.node = end(tree[last'.t])) =>
       /\ ~last'.ok
       /\ UNCHANGED <<heap, live, tree>>]_vars

\* An erase on a tree with an iterator to an element of its copy has acted.
C10_Witness ==
  /\ last.op = "erase" /\ ~last.ok /\ last.shape.foreign
  /\ heap[last.node].has
  /\ size(LastTree) >= 1
  /\ last.key \in StoredValues(heap, LastTree)

Increments == {"++pre", "++post"}
Decrements == {"--pre", "--post"}

\* C11: ++ (prefix or postfix) of an iterator equal to end() and -- (prefix or
\* postfix) of an iterator equal to begin() throw invalid_iterator and leave
\* the iterator where it was; on an empty tree both ++ and -- throw.
C11_IteratorBounds ==
  [][/\ (last'.op \in Increments /\ last'.node = end(tree[last'.t])) =>
          ~last'.ok /\ last'.pos = last'.node
     /\ (last'.op \in Decrements /\ last'.node = begin(tree[last'.t])) =>
          ~last'.ok /\ last'.pos = last'.node
     /\ (last'.op \in Increments \cup Decrements /\ empty(tree[last'.t])) =>
          ~last'.ok /\ last'.pos = last'.node]_vars

\* A prefix -- of begin() has thrown on a tree whose minimum is not the root.
C11_Witness ==
  /\ last.op = "--pre" /\ ~last.ok
  /\ last.node = begin(LastTree) /\ last.pos = last.node
  /\ last.node # root_(heap, LastTree)
  /\ size(LastTree) >= 3

\* C12: find(k) returns an iterator to the stored element equivalent to k when
\* there is one and end() otherwise, on every tree and for every probe k; on
\* an empty tree it returns end(); it modifies nothing.
C12_Find ==
  [][last'.op = "find" =>
       LET t == last'.t
           k == last'.key
           r == last'.ret
       IN /\ HasEquivalent(heap, tree[t], k) =>
               r \in RealNodes(heap, tree[t]) /\ Equiv(heap[r].value, k)
          /\ ~HasEquivalent(heap, tree[t], k) => r = end(tree[t])
          /\ empty(tree[t]) => r = end(tree[t])
          /\ UNCHANGED <<heap, live, tree>>]_vars

\* find has returned a node two links below the root.
C12_Witness ==
  /\ last.op = "find" /\ last.ret # end(LastTree)
  /\ last.ret # root_(heap, LastTree)
  /\ heap[last.ret].parent # root_(heap, LastTree)
  /\ Equiv(heap[last.ret].value, last.key)

\* The nodes of a tree: its end node and its value nodes.
OwnedNodes(h, T) == {end(T)} \cup RealNodes(h, T)

\* C13: two trees of which one was copy-constructed or copy-assigned from the
\* other share no node, and an insert, erase or clear on one of them leaves
\* the other's size, contents and structure (every node and link) unchanged.
C13_CopyIndependent ==
  [][/\ (tree'[1].endNode_ # Null /\ tree'[2].endNode_ # Null) =>
          OwnedNodes(heap', tree'[1]) \cap OwnedNodes(heap', tree'[2]) = {}
     /\ \A u \in Trees :
          (/\ last'.op \in {"insert", "erase", "clear"}
           /\ last'.t # u
           /\ Alive(u)) =>
            /\ tree'[u] = tree[u]
            /\ \A n \in OwnedNodes(heap, tree[u]) :
                 heap'[n] = heap[n] /\ n \in live']_vars

\* An erase on the copy has removed an element with two children that the
\* original still holds.
C13_Witness ==
  /\ last.op = "erase" /\ last.ok /\ last.t = 2 /\ last.shape.kids = 2
  /\ last.key \in StoredValues(heap, tree[1])
  /\ size(tree[1]) >= 3

\* C14: an erase frees one node, the node of the erased element, and an
\* insert frees none; every other value node is afterwards still a live node
\* of the tree and holds the value it held, whatever was transplanted or
\* rotated, and end() is the node it was.
C14_IteratorsSurvive ==
  [][last'.op \in {"insert", "erase"} =>
       LET t    == last'.t
           gone == live \ live'
       IN /\ (last'.op = "erase" /\ last'.ok) =>
               Cardinality(gone) = 1 /\ gone \subseteq RealNodes(heap, tree[t])
          /\ ~(last'.op = "erase" /\ last'.ok) => gone = {}
          /\ \A n \in RealNodes(heap, tree[t]) \ gone :
               /\ n \in live'
               /\ n \in RealNodes(heap', tree'[t])
               /\ heap'[n].has /\ heap'[n].value = heap[n].value
          /\ end(tree'[t]) = end(tree[t])
          /\ end(tree'[t]) \in live']_vars

\* An erase of a node with two children below the root has acted whose
\* fix-up rotated at the root.
C14_Witness ==
  /\ last.op = "erase" /\ last.ok /\ last.shape.kids = 2
  /\ ~last.shape.root /\ last.rootMoved
  /\ size(LastTree) >= 6

\* C15: across every insert, erase, clear and copy-assignment into a tree its
\* end node is the node it was (an end() taken before still equals end()),
\* has not been freed, and holds no value.
C15_EndNodePermanent ==
  [][(last'.op \in {"insert", "erase", "clear", "assign"} /\ Alive(last'.t)) =>
       /\ end(tree'[last'.t]) = end(tree[last'.t])
       /\ end(tree[last'.t]) \in live'
       /\ ~heap'[end(tree'[last'.t])].has]_vars

\* The positions ++ leaves from `it` on, until ++ throws or fuel runs out.
RECURSIVE Forward(_, _, _, _)
Forward(h, trees, it, fuel) ==
  IF fuel = 0 \/ iterator_preinc(h, trees, it).threw THEN <<>>
  ELSE <<it.node>> \o Forward(h, trees, iterator_preinc(h, trees, it).it,
                               fuel - 1)

\* The positions -- arrives at from `it` on, until -- throws or fuel runs out.
RECURSIVE Backward(_, _, _, _)
Backward(h, trees, it, fuel) ==
  IF fuel = 0 \/ iterator_predec(h, trees, it).threw THEN <<>>
  ELSE <<iterator_predec(h, trees, it).it.node>>
         \o Backward(h, trees, iterator_predec(h, trees, it).it, fuel - 1)

Range(seq) == {seq[i] : i \in 1..Len(seq)}
StrictlyDecreasing(h, nodes) ==
  \A i \in 1..(Len(nodes) - 1) : Cmp(h[nodes[i + 1]].value, h[nodes[i]].value)

\* C16: ++ from begin() visits every stored element once, in strictly
\* ascending order, and is at end() after exactly size() steps; -- from end()
\* visits them in strictly descending order and is at begin() after size()
\* steps; the successor of the maximum is the end node.
C16_Traversal ==
  \A t \in AliveTrees :
    LET T   == tree[t]
        fwd == Forward(heap, tree, [node |-> begin(T), home |-> t], MaxAddr)
        bwd == Backward(heap, tree, [node |-> end(T), home |-> t], MaxAddr)
    IN /\ Len(fwd) = size(T) /\ Len(bwd) = size(T)
       /\ Range(fwd) = RealNodes(heap, T) /\ Range(bwd) = RealNodes(heap, T)
       /\ StrictlyIncreasing(heap, fwd) /\ StrictlyDecreasing(heap, bwd)
       /\ ~empty(T) =>
            /\ next(heap, fwd[Len(fwd)]) = end(T)
            /\ fwd[Len(fwd)] = max(heap, root_(heap, T))
            /\ bwd[Len(bwd)] = begin(T)

\* ++ at the maximum, two links or more below the root, has arrived at end().
C16_Witness ==
  /\ last.op = "++pre" /\ last.ok /\ last.pos = end(LastTree)
  /\ last.node # root_(heap, LastTree)
  /\ heap[last.node].parent # root_(heap, LastTree)
  /\ size(LastTree) >= 4

\* C17: after clear() size() is 0, empty() holds, begin() is end(), find of
\* any key is end(), every value node the tree had is destroyed, and the tree
\* is what init_ makes of a new tree, so that an insert makes its value the
\* black root, as on a freshly constructed tree.
C17_Clear ==
  [][last'.op = "clear" =>
       LET t == last'.t
           T == tree'[t]
           Fresh(f) == f.h = heap' /\ f.live = live' /\ f.T = T
           First(v, a) ==
             [h        |-> [heap' EXCEPT ![a] = NewNode(v, end(T), kBlack),
                                         ![end(T)].left = a],
              live     |-> live' \cup {a},
              T        |-> [endNode_ |-> end(T), leftmost_ |-> a, size_ |-> 1],
              node     |-> a,
              inserted |-> TRUE]
       IN /\ size(T) = 0 /\ empty(T) /\ begin(T) = end(T)
          /\ \A k \in 1..MaxKeyIter : find(heap', T, k) = end(T)
          /\ RealNodes(heap', T) = {}
          /\ \A n \in RealNodes(heap, tree[t]) :
               n \notin live' /\ heap'[n] = FreeNode
          /\ Fresh(init_(heap', live', end(T)))
          /\ \A v \in 1..MaxKeyIter :
               insert(heap', live', T, v, NewAddr(live', t, v)) =
                 First(v, NewAddr(live', t, v))]_vars

\* clear() has acted on a tree of five or more elements.
C17_Witness ==
  /\ last.op = "clear" /\ last.key >= 5
  /\ size(LastTree) = 0

\* The value nodes whose key is the key of v (v a key or a pair); integer
\* keys under std::less are equivalent exactly when they are equal.
WithKey(h, T, v) == {n \in RealNodes(h, T) : first(h[n].value) = first(v)}

\* C18: at(key) and the const operator[] throw index_out_of_bound exactly
\* when no element with an equivalent key is stored and otherwise return the
\* mapped value of that element; neither changes the size or the contents.
C18_At ==
  [][last'.op \in {"at", "[]const"} =>
       /\ ~last'.ok <=> WithKey(heap, tree[1], last'.key) = {}
       /\ last'.ok =>
            /\ WithKey(heap, tree[1], last'.key) = {last'.node}
            /\ last'.ret = second(heap[last'.node].value)
       /\ UNCHANGED <<heap, live, tree>>]_vars

\* at has returned a mapped value that is not the default, of an element
\* below the root.
C18_Witness ==
  /\ last.op = "at" /\ last.ok
  /\ last.ret # DefaultMapped /\ last.ret = second(heap[last.node].value)
  /\ last.node # root_(heap, LastTree)

\* C19: operator[](key) on an absent key inserts (key, default), size() grows
\* by one and the reference is to the new default mapped value; on a present
\* key nothing is inserted or changed and the reference is to the mapped
\* value the element has.
C19_Index ==
  [][last'.op = "[]" =>
       LET k == last'.key
           n == last'.node
       IN /\ WithKey(heap, tree[1], k) = {} =>
               /\ last'.ok
               /\ size(tree'[1]) = size(tree[1]) + 1
               /\ StoredValues(heap', tree'[1]) =
                    StoredValues(heap, tree[1]) \cup {Pair(k, DefaultMapped)}
               /\ n \in RealNodes(heap', tree'[1]) \ RealNodes(heap, tree[1])
               /\ heap'[n].value = Pair(k, DefaultMapped)
               /\ last'.ret = DefaultMapped
          /\ WithKey(heap, tree[1], k) # {} =>
               /\ ~last'.ok
               /\ WithKey(heap, tree[1], k) = {n}
               /\ last'.ret = second(heap[n].value)
               /\ UNCHANGED <<heap, live, tree>>]_vars

\* operator[] has returned the mapped value, not the default, of an element
\* that was stored.
C19_Witness ==
  /\ last.op = "[]" /\ ~last.ok
  /\ last.ret # DefaultMapped /\ last.ret = second(heap[last.node].value)
  /\ size(LastTree) >= 3

\* C20: insert((k, v2)) into a map that stores (k, v1) returns (iterator to
\* that element, false) and changes nothing, so the mapped value stays v1;
\* insert of a pair whose key is not stored inserts it, whatever mapped
\* values are stored.
C20_KeyOnly ==
  [][last'.op = "insert" =>
       LET v == last'.key
           n == last'.node
       IN /\ WithKey(heap, tree[1], v) # {} =>
               /\ ~last'.ok
               /\ WithKey(heap, tree[1], v) = {n}
               /\ heap'[n].value = heap[n].value
               /\ UNCHANGED <<heap, live, tree>>
          /\ WithKey(heap, tree[1], v) = {} =>
               /\ last'.ok
               /\ heap'[n].value = v
               /\ size(tree'[1]) = size(tree[1]) + 1
               /\ StoredValues(heap', tree'[1]) =
                    StoredValues(heap, tree[1]) \cup {v}]_vars

\* insert((k, v2)) has met a stored (k, v1) with another mapped value.
C20_Witness ==
  /\ last.op = "insert" /\ ~last.ok
  /\ first(heap[last.node].value) = first(last.key)
  /\ second(heap[last.node].value) # second(last.key)
  /\ size(LastTree) >= 3

\* The trees below n in heap g and below m in heap h have the same shape,
\* colours and values (d bounds the depth).
RECURSIVE SameTree(_, _, _, _, _)
SameTree(g, n, h, m, d) ==
  IF n = Null \/ m = Null \/ d = 0 THEN n = Null /\ m = Null
  ELSE /\ g[n].type = h[m].type
       /\ g[n].has = h[m].has
       /\ g[n].has => g[n].value = h[m].value
       /\ SameTree(g, g[n].left, h, h[m].left, d - 1)
       /\ SameTree(g, g[n].right, h, h[m].right, d - 1)

\* C24: copy construction and copy assignment from another tree give a tree
\* of the same size, shape and colours as the source; the parent of every
\* node of the clone is the node of the clone it hangs below (none for the
\* end node); leftmost_ is the minimum of the clone, its own end node when it
\* is empty; an assignment of a tree to itself changes nothing.
C24_Clone ==
  [][last'.op \in {"assign", "copy"} =>
       IF last'.t = last'.key THEN UNCHANGED <<heap, live, tree>>
       ELSE /\ size(tree'[last'.t]) = size(tree[last'.key])
            /\ SameTree(heap', end(tree'[last'.t]),
                        heap, end(tree[last'.key]), MaxAddr)
            /\ heap'[end(tree'[last'.t])].parent = Null
            /\ \A n \in RealNodes(heap', tree'[last'.t]) :
                 /\ heap'[n].parent \in OwnedNodes(heap', tree'[last'.t])
                 /\ n \in {heap'[heap'[n].parent].left,
                            heap'[heap'[n].parent].right}
            /\ OwnedNodes(heap', tree'[last'.t])
                 \cap OwnedNodes(heap, tree[last'.key]) = {}
            /\ begin(tree'[last'.t]) = MinNode(heap', tree'[last'.t])
            /\ begin(tree'[last'.t]) \in OwnedNodes(heap', tree'[last'.t])
            /\ empty(tree[last'.key])
                 => begin(tree'[last'.t]) = end(tree'[last'.t])]_vars

\* A tree of five or more elements, with red nodes and black nodes below the
\* root, has been assigned to another tree.
C24_Witness ==
  /\ last.op = "assign" /\ last.t # last.key
  /\ size(LastTree) >= 5
  /\ \E n \in RealNodes(heap, LastTree) : heap[n].type = kRed
  /\ \E n \in RealNodes(heap, LastTree) :
       heap[n].type = kBlack /\ n # root_(heap, LastTree)

\* C25: the live nodes are exactly the nodes of the alive trees, each tree
\* having its end node and size() value nodes linked below it; an insert that
\* inserts allocates one node, an insert of a stored value allocates none, an
\* erase that throws frees none, and an erase frees the node erased, which
\* was live and is linked in no tree afterwards.
C25_NodeAccounting ==
  [][/\ live = UNION {OwnedNodes(heap, tree[t]) : t \in AliveTrees}
     /\ \A t \in AliveTrees :
          /\ Cardinality(RealNodes(heap, tree[t])) = size(tree[t])
          /\ end(tree[t]) \notin RealNodes(heap, tree[t])
     /\ (last'.op = "insert" /\ ~last'.ok) => live' = live
     /\ (last'.op = "insert" /\ last'.ok) =>
          /\ last'.node \notin live
          /\ live' = live \cup {last'.node}
     /\ (last'.op = "erase" /\ ~last'.ok) => live' = live
     /\ (last'.op = "erase" /\ last'.ok) =>
          /\ last'.node \in live
          /\ live' = live \ {last'.node}
          /\ \A t \in Trees :
               tree'[t].endNode_ # Null =>
                 last'.node \notin OwnedNodes(heap', tree'[t])]_vars

\* While two trees are alive, an insert has found its value stored in a tree
\* of three or more elements.
C25_Witness ==
  /\ last.op = "insert" /\ ~last.ok
  /\ AliveTrees = Trees
  /\ size(LastTree) >= 3

\* The node an erase has freed (the node of pos).
Erased == CHOOSE n \in live \ live' : TRUE

\* The node delete_ splices out for `node`: node itself unless it has two
\* children, else the least node of its right subtree.
Spliced(h, node) ==
  IF h[node].left = Null \/ h[node].right = Null THEN node
  ELSE min(h, h[node].right)

\* C26: in every erase the spliced node y has at most one child, and when it
\* has one, y is black and the child is a red leaf.
C26_SplicedNode ==
  [][(last'.op = "erase" /\ last'.ok) =>
       /\ Cardinality(live \ live') = 1
       /\ heap[Spliced(heap, Erased)].left = Null
            \/ heap[Spliced(heap, Erased)].right = Null
       /\ \A c \in {heap[Spliced(heap, Erased)].left,
                      heap[Spliced(heap, Erased)].right} \ {Null} :
            /\ heap[Spliced(heap, Erased)].type = kBlack
            /\ heap[c].type = kRed
            /\ heap[c].left = Null /\ heap[c].right = Null]_vars

\* A node with exactly one child, which is then the spliced node, has been
\* erased from below the root of a tree of seven or more elements.
C26_Witness ==
  /\ last.op = "erase" /\ last.ok /\ last.shape.kids = 1
  /\ ~last.shape.root
  /\ size(LastTree) >= 6

\* The non-null children of n.
Children(h, n) == {h[n].left, h[n].right} \ {Null}

\* C27: in every tree the parent of every child is the node it is a child
\* of; the parent of the root is the end node; the end node has no parent and
\* no right child; the end node, and no other node, has an empty value slot;
\* and the nodes linked below the end node form a tree: no node is a child
\* twice and the end node is no child.
C27_Links ==
  \A t \in AliveTrees :
    /\ \A n \in OwnedNodes(heap, tree[t]) :
         /\ \A c \in Children(heap, n) : heap[c].parent = n
         /\ heap[n].left # Null => heap[n].left # heap[n].right
         /\ end(tree[t]) \notin Children(heap, n)
         /\ heap[n].has <=> n # end(tree[t])
         /\ n \in live
    /\ root_(heap, tree[t]) # Null
         => heap[root_(heap, tree[t])].parent = end(tree[t])
    /\ heap[end(tree[t])].parent = Null
    /\ heap[end(tree[t])].right = Null
    /\ Cardinality(OwnedNodes(heap, tree[t])) = size(tree[t]) + 1

\* An erase of a node with two children below the root has re-linked the
\* tree and moved the root.
C27_Witness ==
  /\ last.op = "erase" /\ last.ok /\ last.shape.kids = 2
  /\ ~last.shape.root /\ last.rootMoved
  /\ size(LastTree) >= 8

\* C28: fixupDelete_ dereferences no null pointer: the sibling it is called
\* with, by delete_ and by itself one level up, the sibling read again after
\* the rotation at a red sibling, the near and the far child it recolours and
\* the node a rotation lifts are nodes; nothing is read or written through
\* the null address.
C28_NoNullDeref == heap[Null] = FreeNode

\* An erase of a black leaf below a black parent with a black sibling has
\* acted: its fix-up has gone up a level in a tree that still has seven or
\* more elements.
C28_Witness ==
  /\ last.op = "erase" /\ last.ok /\ last.shape.climb
  /\ last.shape.kids = 0 /\ last.shape.black
  /\ size(LastTree) >= 7

----------------------------------------------------------------------------
\* sjtu::vector

\* The element at index i of vector v in the vectors w.
ElemAt(w, v, i) == w.mem[w.obj[v].storage_].cell[i]

\* C21: vector::insert(ix, value) with ix <= size() makes at(ix) == value,
\* keeps the elements before ix, moves the elements from ix on one index up,
\* adds one to size() and returns the iterator to index ix, also when the
\* vector grows; with ix > size() it throws index_out_of_bound and leaves the
\* vector as it was.
C21_VectorInsert ==
  [][last'.op = "v.insert" =>
       IF last'.node <= vector_size(vec, last'.t)
       THEN /\ last'.ok
            /\ vector_at(vec', last'.t, last'.node) =
                 [threw |-> FALSE, ret |-> last'.key]
            /\ \A i \in 0..(last'.node - 1) :
                 ElemAt(vec', last'.t, i) = ElemAt(vec, last'.t, i)
            /\ \A i \in last'.node..(vector_size(vec, last'.t) - 1) :
                 ElemAt(vec', last'.t, i + 1) = ElemAt(vec, last'.t, i)
            /\ vector_size(vec', last'.t) = vector_size(vec, last'.t) + 1
            /\ last'.ret = vector_begin(vec', last'.t).ptr + last'.node
       ELSE ~last'.ok /\ vec' = vec]_vars

\* C22: vector::erase(ix) with ix < size() removes the element at ix: the
\* elements before ix stay, the elements after ix move one index down,
\* size() drops by one, and the iterator returned is the one to index ix,
\* the element that followed (end() when the last element was erased); with
\* ix >= size() it throws index_out_of_bound and leaves the vector as it was.
C22_VectorErase ==
  [][last'.op = "v.erase" =>
       IF last'.node < vector_size(vec, last'.t)
       THEN /\ last'.ok
            /\ \A i \in 0..(last'.node - 1) :
                 ElemAt(vec', last'.t, i) = ElemAt(vec, last'.t, i)
            /\ \A i \in last'.node..(vector_size(vec, last'.t) - 2) :
                 ElemAt(vec', last'.t, i) = ElemAt(vec, last'.t, i + 1)
            /\ vector_size(vec', last'.t) = vector_size(vec, last'.t) - 1
            /\ last'.ret = vector_begin(vec', last'.t).ptr + last'.node
            /\ last'.node = vector_size(vec, last'.t) - 1
                 => last'.ret = vector_end(vec', last'.t).ptr
       ELSE ~last'.ok /\ vec' = vec]_vars

\* An element inside a vector that has grown twice was erased, and the two
\* elements now at its index and after differ.
C22_Witness ==
  /\ last.op = "v.erase" /\ last.ok /\ last.node = 1
  /\ vec.obj[last.t].capacity_ = 2 * kSzDefault_
  /\ vector_size(vec, last.t) = 4
  /\ ElemAt(vec, last.t, 1) # ElemAt(vec, last.t, 2)

\* The index an iterator of vector v with the pointer ptr stands at.
Position(w, v, ptr) == ptr - vector_begin(w, v).ptr

\* C23: for two iterators a and b of the same vector, a - b returns the
\* position of a minus the position of b; for iterators of different vectors
\* it throws invalid_iterator.
C23_IteratorDifference ==
  [][last'.op = "v.it-" =>
       IF last'.t = last'.key
       THEN /\ last'.ok
            /\ last'.ret = Position(vec, last'.t, last'.node)
                           - Position(vec, last'.key, last'.pos)
       ELSE ~last'.ok]_vars

----------------------------------------------------------------------------
\* Termination

\* The number of parent links from n up to the end node.
RECURSIVE Depth(_, _, _)
Depth(h, n, fuel) ==
  IF h[n].parent = Null \/ fuel = 0 THEN 0
  ELSE 1 + Depth(h, h[n].parent, fuel - 1)

\* C29: every insert and erase terminates.  A call of fixupInsert_ that is
\* not at the root and not below a black parent either returns or calls
\* itself at the grandparent, two levels up; a call of fixupDelete_ either
\* returns or calls itself one level up, and it returns when the parent is
\* the root or red; an iteration of the loop of next and prev moves to the
\* parent and never to the end node.  The depth of the argument, a natural
\* number, drops with every call and iteration, no operation counts
\* MaxCalls of them, and an operation in progress is followed by itself or
\* by its end.
C29_Terminates ==
  [][/\ run.pc # "idle" => run'.pc \in {run.pc, "idle"}
     /\ run.calls < MaxCalls /\ run'.calls < MaxCalls
     /\ (run.pc # "idle" /\ run'.pc = run.pc) =>
          /\ run'.calls = run.calls + 1
          /\ run'.node \in RealNodes(heap', tree'[1])
          /\ Depth(heap', run'.node, MaxAddr) < Depth(heap, run.node, MaxAddr)
     /\ (run.pc = "fixupInsert_" /\ run'.pc = run.pc) =>
          /\ run'.node = heap[heap[run.node].parent].parent
          /\ Depth(heap', run'.node, MaxAddr)
               = Depth(heap, run.node, MaxAddr) - 2
     /\ (/\ run.pc = "fixupInsert_"
         /\ \/ run.node = root_(heap, tree[1])
            \/ heap[heap[run.node].parent].type = kBlack) =>
          run'.pc = "idle"
     /\ (run.pc = "fixupDelete_" /\ run'.pc = run.pc) =>
          /\ Depth(heap', run'.node, MaxAddr)
               = Depth(heap, run.node, MaxAddr) - 1
          /\ heap[heap[run.node].parent].type = kBlack
          /\ heap[run.node].parent # root_(heap, tree[1])
     /\ (run.pc \in {"next", "prev"} /\ run'.pc = run.pc) =>
          run'.node = heap[run.node].parent]_vars

\* fixupDelete_ runs in a call it made itself.
C29_Witness == run.pc = "fixupDelete_" /\ run.calls >= 1

=============================================================================
